---------------------------- MODULE Spec2Model ----------------------------
(***************************************************************************)
(* hcData: common-ancestor walk (rpcutils), SQLite/stake DB resync         *)
(* (dcrsqlite) and the transactions table of the PostgreSQL store (dcrpg). *)
(***************************************************************************)
EXTENDS Integers, Sequences, FiniteSets, TLC

(* ------------------------------ bounds --------------------------------- *)
\* number of blocks known to the node in the common-ancestor model
NumBlocks == 5
\* largest block height in the resync model
MaxHeight == 4
\* number of InsertTxns calls on the transactions table
MaxInserts == 2
\* number of blocks stored in the per-block insert model
MaxStores == 2
\* largest configured chain length limit below the default
MaxLimit == 3
\* number of stake transactions in the block given to InsertVotes
MaxStakeTxns == 3

(* --------------------------- program constants ------------------------- *)
zeroHash == 0
maxAncestorChainLength == 8192
\* chaincfg.MainNetParams.TicketsPerBlock
TicketsPerBlock == 5
\* the literal in InsertVotes: len(ids)+len(misses) != 5
votesPlusMisses == 5

ErrNil == "nil"
ErrAncestorAtGenesis == "no ancestor: at genesis"
ErrAncestorMaxChainLength == "no ancestor: max chain length reached"
ErrNilClient == "nil RPC client"
ErrGetBlock == "Failed to get block"

VARIABLES
  \* --- rpcutils.CommonAncestor ---
  prevBlock,   \* the node's block index: hash -> Header.PrevBlock
  maxLen,      \* package variable maxAncestorChainLength
  caPc,        \* "idle" | "loop" | "done"
  tipA, tipB,  \* the hashA, hashB arguments of the call
  hashA, hashB,\* the two cursors
  chainA, chainB,
  length,
  iters,       \* loop iterations that got past the length check
  ancestor,    \* returned *chainhash.Hash (zeroHash stands for nil)
  caErr,
  \* --- dcrsqlite.resyncDB ---
  nodeHeight,       \* best block height of the chain server
  summaryHeight,    \* SQLite block summary table: best height (-1 when empty)
  stakeInfoHeight,  \* SQLite stake info table: best height (-1 when empty)
  sdbHeight,        \* stake database height, db.sDB.Height()
  ctxDone,          \* ctx.Done() is closed
  waitChan,         \* db.waitChan: the height the running resyncDB registered
                    \* it for with WaitForHeight (-1: the channel that
                    \* initWaitChan set before the run)
  syPc,             \* position of resyncDB
  rs,               \* locals of resyncDB
  rw,               \* locals of RewindStakeDB
  retHeight, retErr,\* values returned by resyncDB
  run,              \* record of the current run: entry heights, disconnects, connects
  \* --- dcrpg: transactions table and the per-block inserts ---
  txTable,          \* rows of the transactions table
  txSeq,            \* last value of the id sequence (SERIAL8)
  uixTxHashes,      \* the unique index uix_tx_hashes exists
  last,             \* the last call on the transactions table and what it returned
  tbl,              \* vouts, vins, addresses, tickets, votes: blocks with committed rows
  st,               \* the block store in progress: block, step, error
  \* --- dcrpg.InsertVotes ---
  iv,               \* the InsertVotes call in progress and the rows of its block
  \* --- dcrpg: addresses table ---
  ad,               \* the addresses table, the vouts seen and the call in progress
  \* --- dcrpg: batch inserts ---
  bt,               \* transactions, vouts and tickets rows and the last batch call
  \* --- dcrpg: main chain flags in a reorganization ---
  rg,               \* the rows of two branches and the reorganization in progress
  \* --- dcrpg: UpdateTransactionsValid, UpdateTransactionsMainchain ---
  ut,               \* transactions rows with their tree and the last update call
  \* --- explorer: charts data cache ---
  ch,               \* tip height, cacheChartsData, its locks, updaters and a reader
  \* --- query layer: address balance, address history range, getTransactions ---
  qy,               \* the tables read and the last query with its result
  \* --- rpcutils.SideChainFull, dcrsqlite.ImportSideChains ---
  sc                \* the node's side chains and the import in progress

caVars == <<prevBlock, maxLen, caPc, tipA, tipB, hashA, hashB, chainA, chainB,
            length, iters, ancestor, caErr>>

syncVars == <<nodeHeight, summaryHeight, stakeInfoHeight, sdbHeight, ctxDone,
              waitChan, syPc, rs, rw, retHeight, retErr, run>>

dbVars == <<txTable, txSeq, uixTxHashes, last, tbl, st>>

\* the parts modelled one call at a time
moreVars == <<iv, ad, bt, rg, ut, ch, qy, sc>>

vars == <<caVars, syncVars, dbVars, moreVars>>

(* ------------------- states of the parts at rest ---------------------- *)
NoRun == [entryH |-> -1, entryInfo |-> -1, entryS |-> 0, disconnects |-> 0,
          connects |-> {}, stores |-> {}, processed |-> {}, firstI |-> -1,
          afterFail |-> -1, failedCommit |-> -1]

NoFrame == [master |-> TRUE, fetchToHeight |-> 0, barLoad |-> FALSE,
            updateExplorer |-> FALSE, height |-> 0, dbHeight |-> -1,
            summaryHeight |-> -1, stakeInfoHeight |-> -1, stakeDBHeight |-> 0,
            startHeight |-> 0, i |-> 0, connected |-> FALSE,
            blockhash |-> 0, via |-> "none", fetched |-> 0]

NoRewind == [toHeight |-> 0, stakeDBHeight |-> 0]

SyIdle ==
  /\ nodeHeight = 0
  /\ summaryHeight = -1 /\ stakeInfoHeight = -1
  /\ sdbHeight = 0
  /\ ctxDone = FALSE
  /\ waitChan = -1
  /\ syPc = "idle"
  /\ rs = NoFrame /\ rw = NoRewind
  /\ retHeight = 0 /\ retErr = ErrNil
  /\ run = NoRun

OtherTables == {"vouts", "vins", "addresses", "tickets", "votes"}

NoCall == [n |-> 0, op |-> "none", batch |-> <<>>, checked |-> FALSE,
           upd |-> FALSE, ids |-> <<>>, err |-> ErrNil, rows |-> 0, seq0 |-> 0,
           prevStmt |-> "", prevMain |-> FALSE]

NoStore == [pc |-> "idle", block |-> "", checked |-> FALSE, upd |-> FALSE,
            err |-> ErrNil, fresh |-> FALSE, n |-> 0]

DBIdle ==
  /\ txTable = {}
  /\ txSeq = 0
  /\ uixTxHashes = FALSE
  /\ last = NoCall
  /\ tbl = [t \in OtherTables |-> {}]
  /\ st = NoStore

\* no InsertVotes call yet, no rows of the block in the tables
NoRows == [votes |-> {}, agendas |-> {}, misses |-> {}]

NoVotes == [pc |-> "idle", checked |-> FALSE, update |-> FALSE,
            validators |-> <<>>, height |-> 0, agendas |-> {},
            nVotes |-> 0, spent |-> {}, misses |-> <<>>, ids |-> <<>>,
            pending |-> NoRows, rows |-> NoRows,
            err |-> "nil", panicked |-> FALSE]

\* no call on the addresses table yet
NoAddrCall == [op |-> "none", vin |-> 0, upd |-> FALSE, utxo |-> FALSE,
               list |-> <<>>, many |-> FALSE, i |-> 0, before |-> {},
               touched |-> {}, rollback |-> FALSE]

\* an empty addresses table, no vouts, no call
NoAddr == [pc |-> "idle", n |-> 0, checked |-> FALSE, update |-> FALSE,
           rows |-> {}, seq |-> 0, vouts |-> {}, tx |-> [rows |-> {}, seq |-> 0],
           call |-> NoAddrCall, pend |-> <<>>, err |-> "nil", count |-> 0,
           plain |-> TRUE]

\* empty transactions, vouts and tickets tables, no batch insert yet
NoBatch == [n |-> 0, checked |-> FALSE, update |-> FALSE, uix |-> FALSE,
            rows |-> [t \in {"transactions", "vouts", "tickets"} |-> {}],
            seq |-> [t \in {"transactions", "vouts", "tickets"} |-> 0],
            fn |-> "none", input |-> <<>>, inserted |-> <<>>, ids |-> <<>>,
            err |-> "nil"]

\* no blocks stored, no reorganization
NoReorg == [pc |-> "none", oldLen |-> 0, newLen |-> 0, shared |-> FALSE,
            phase |-> "old", k |-> 0, blocks |-> {}, txs |-> {}, tickets |-> {},
            votes |-> {}, addr |-> {}, stake |-> 0, valid |-> FALSE,
            err |-> "nil"]

\* no transactions rows, no update call
NoUpdate == [n |-> 0, rows |-> {}, fn |-> "none", block |-> "", val |-> FALSE,
             before |-> {}, updated |-> {}, ids |-> <<>>, numRows |-> 0,
             err |-> "nil"]

\* the goroutines that run prePopulateChartsData
Updaters == {1, 2}

\* cacheChartsData.Data == nil
NoData == [forHeight |-> -1, dbHeight |-> -1, branch |-> 0]

\* an explorer at height 0 with an empty charts cache and nothing running
NoCharts == [tip |-> 0, branch |-> 0, lite |-> FALSE, updateHeight |-> 0,
             data |-> NoData,
             writer |-> 0, readers |-> 0, mu |-> 0,
             upc |-> [u \in Updaters |-> "idle"],
             uexp |-> [u \in Updaters |-> 0],
             ucache |-> [u \in Updaters |-> 0],
             ubranch |-> [u \in Updaters |-> 0],
             udata |-> [u \in Updaters |-> NoData],
             rpc |-> "idle", served |-> [h |-> -1, data |-> NoData, tip |-> 0, branch |-> 0]]

\* no query has been made
NoQuery == [fn |-> "none"]

\* no side chain call has been made
NoSide == [fn |-> "none"]

MoreIdle ==
  /\ iv = NoVotes
  /\ ad = NoAddr
  /\ bt = NoBatch
  /\ rg = NoReorg
  /\ ut = NoUpdate
  /\ ch = NoCharts
  /\ qy = NoQuery
  /\ sc = NoSide

(* ======================= rpcutils.CommonAncestor ======================= *)
Hashes == 1..NumBlocks
\* a hash the node does not know (client.GetBlock fails)
UnknownHash == NumBlocks + 1

\* block trees with the single genesis block 1
BlockTrees ==
  {f \in [Hashes -> 0..NumBlocks] :
     /\ f[1] = zeroHash
     /\ \A h \in Hashes \ {1} : f[h] \in 1..(h-1)}

RECURSIVE HeaderHeight(_)
HeaderHeight(h) == IF prevBlock[h] = zeroHash THEN 0 ELSE 1 + HeaderHeight(prevBlock[h])

GetBlockOK(h) == h \in DOMAIN prevBlock

PrependDropped(h, chain) == chain
PrependAtEnd(h, chain) == Append(chain, h)
\* append([]chainhash.Hash{hash}, chain...)
Prepend(h, chain) == <<h>> \o chain

LimitOffByOne(len, max) == len > max
\* length >= maxAncestorChainLength
LimitReached(len, max) == len >= max

FoundAncestorIsCursor(h) == h
\* return &hashA after hashA = blockA.Header.PrevBlock
FoundAncestor(h) == prevBlock[h]

AtGenesisNever(h) == FALSE
\* blockA.Header.PrevBlock == zeroHash
AtGenesis(h) == prevBlock[h] = zeroHash

CACall(a, b, client) ==
  /\ caPc \in {"idle", "done"}
  /\ tipA' = a /\ tipB' = b
  /\ chainA' = <<>> /\ chainB' = <<>>
  /\ length' = 0 /\ iters' = 0
  /\ ancestor' = zeroHash
  /\ IF client
       THEN /\ caPc' = "loop" /\ caErr' = ErrNil
            /\ hashA' = a /\ hashB' = b
       ELSE /\ caPc' = "done" /\ caErr' = ErrNilClient
            /\ hashA' = a /\ hashB' = b
  /\ UNCHANGED <<prevBlock, maxLen>>
  /\ UNCHANGED <<syncVars, dbVars, moreVars>>

CAReturnNil(err) ==
  /\ caPc' = "done" /\ caErr' = err
  /\ ancestor' = zeroHash /\ chainA' = <<>> /\ chainB' = <<>>

\* if length >= maxAncestorChainLength { return nil, nil, nil, ErrAncestorMaxChainLength }
CAMaxChainLength ==
  /\ caPc = "loop"
  /\ LimitReached(length, maxLen)
  /\ CAReturnNil(ErrAncestorMaxChainLength)
  /\ UNCHANGED <<prevBlock, maxLen, tipA, tipB, hashA, hashB, length, iters>>
  /\ UNCHANGED <<syncVars, dbVars, moreVars>>

\* client.GetBlock(&hashA) or client.GetBlock(&hashB) fails
CAGetBlockFail ==
  /\ caPc = "loop"
  /\ ~LimitReached(length, maxLen)
  /\ ~GetBlockOK(hashA) \/ ~GetBlockOK(hashB)
  /\ CAReturnNil(ErrGetBlock)
  /\ iters' = iters + 1
  /\ UNCHANGED <<prevBlock, maxLen, tipA, tipB, hashA, hashB, length>>
  /\ UNCHANGED <<syncVars, dbVars, moreVars>>

CABody ==
  /\ caPc = "loop"
  /\ ~LimitReached(length, maxLen)
  /\ GetBlockOK(hashA) /\ GetBlockOK(hashB)

\* heightA > heightB
CAStepA ==
  /\ CABody
  /\ HeaderHeight(hashA) > HeaderHeight(hashB)
  /\ chainA' = Prepend(hashA, chainA)
  /\ length' = length + 1 /\ iters' = iters + 1
  /\ hashA' = prevBlock[hashA]
  /\ UNCHANGED <<prevBlock, maxLen, caPc, tipA, tipB, hashB, chainB, ancestor, caErr>>
  /\ UNCHANGED <<syncVars, dbVars, moreVars>>

\* heightB > heightA
CAStepB ==
  /\ CABody
  /\ HeaderHeight(hashB) > HeaderHeight(hashA)
  /\ chainB' = Prepend(hashB, chainB)
  /\ length' = length + 1 /\ iters' = iters + 1
  /\ hashB' = prevBlock[hashB]
  /\ UNCHANGED <<prevBlock, maxLen, caPc, tipA, tipB, hashA, chainA, ancestor, caErr>>
  /\ UNCHANGED <<syncVars, dbVars, moreVars>>

CAEqualHeight ==
  /\ CABody
  /\ HeaderHeight(hashA) = HeaderHeight(hashB)
  /\ chainA' = Prepend(hashA, chainA)
  /\ chainB' = Prepend(hashB, chainB)
  /\ length' = length + 1 /\ iters' = iters + 1

\* return nil, chainA, chainB, ErrAncestorAtGenesis
CAAtGenesis ==
  /\ CAEqualHeight
  /\ AtGenesis(hashA)
  /\ caPc' = "done" /\ caErr' = ErrAncestorAtGenesis /\ ancestor' = zeroHash
  /\ UNCHANGED <<prevBlock, maxLen, tipA, tipB, hashA, hashB>>
  /\ UNCHANGED <<syncVars, dbVars, moreVars>>

\* hashA, hashB = PrevBlock, PrevBlock; hashA != hashB: next iteration
CAStepBoth ==
  /\ CAEqualHeight
  /\ ~AtGenesis(hashA)
  /\ prevBlock[hashA] # prevBlock[hashB]
  /\ hashA' = prevBlock[hashA] /\ hashB' = prevBlock[hashB]
  /\ UNCHANGED <<prevBlock, maxLen, caPc, tipA, tipB, ancestor, caErr>>
  /\ UNCHANGED <<syncVars, dbVars, moreVars>>

\* hashA == hashB: break; return &hashA, chainA, chainB, nil
CAFound ==
  /\ CAEqualHeight
  /\ ~AtGenesis(hashA)
  /\ prevBlock[hashA] = prevBlock[hashB]
  /\ hashA' = prevBlock[hashA] /\ hashB' = prevBlock[hashB]
  /\ caPc' = "done" /\ caErr' = ErrNil /\ ancestor' = FoundAncestor(hashA)
  /\ UNCHANGED <<prevBlock, maxLen, tipA, tipB>>
  /\ UNCHANGED <<syncVars, dbVars, moreVars>>

CAInit ==
  /\ prevBlock \in BlockTrees
  /\ maxLen \in (1..MaxLimit) \cup {maxAncestorChainLength}
  /\ caPc = "idle"
  /\ tipA = zeroHash /\ tipB = zeroHash
  /\ hashA = zeroHash /\ hashB = zeroHash
  /\ chainA = <<>> /\ chainB = <<>>
  /\ length = 0 /\ iters = 0
  /\ ancestor = zeroHash /\ caErr = ErrNil
  /\ SyIdle
  /\ DBIdle
  /\ MoreIdle

CANext ==
  \/ \E a, b \in Hashes \cup {UnknownHash}, client \in BOOLEAN : CACall(a, b, client)
  \/ CAMaxChainLength
  \/ CAGetBlockFail
  \/ CAStepA
  \/ CAStepB
  \/ CAAtGenesis
  \/ CAStepBoth
  \/ CAFound

SpecCA == CAInit /\ [][CANext]_vars

(* ------------------ properties of CommonAncestor ----------------------- *)
RECURSIVE AncOrSelf(_)
AncOrSelf(h) == IF prevBlock[h] = zeroHash THEN {h} ELSE {h} \cup AncOrSelf(prevBlock[h])

Ancestors(h) == AncOrSelf(h) \ {h}

Abs(n) == IF n < 0 THEN -n ELSE n
Min(m, n) == IF m < n THEN m ELSE n

DeepestCommon(a, b) ==
  CHOOSE x \in AncOrSelf(a) \cap AncOrSelf(b) :
    \A y \in AncOrSelf(a) \cap AncOrSelf(b) : HeaderHeight(y) <= HeaderHeight(x)

\* loop iterations the walk from tips a, b needs before it returns
WalkLength(a, b) ==
  LET down == Min(HeaderHeight(a), HeaderHeight(b)) - HeaderHeight(DeepestCommon(a, b))
  IN  Abs(HeaderHeight(a) - HeaderHeight(b)) + (IF down < 1 THEN 1 ELSE down)

KnownTips == tipA \in Hashes /\ tipB \in Hashes
CAReturned == caPc = "done" /\ caErr # ErrNilClient /\ KnownTips
WithinLimit == WalkLength(tipA, tipB) <= maxLen
DifferentBranches == tipA \notin AncOrSelf(tipB) /\ tipB \notin AncOrSelf(tipA)
SeqElems(s) == {s[i] : i \in 1..Len(s)}

\* chain runs from the child of x up to tip, every element the parent of the next
ChainFromTo(chain, x, tip) ==
  /\ Len(chain) >= 1
  /\ chain[Len(chain)] = tip
  /\ prevBlock[chain[1]] = x
  /\ \A i \in 1..(Len(chain) - 1) :
       /\ prevBlock[chain[i+1]] = chain[i]
       /\ HeaderHeight(chain[i]) < HeaderHeight(chain[i+1])

\* C5: for two tips on different branches of the block tree (and a walk within
\* the chain length limit of C8) CommonAncestor returns an ancestor X and two
\* chains, each ordered by increasing height with every element the parent of
\* the next, ending at its tip and starting at a child of X; X is in neither
\* chain, the chains are disjoint, and X is the highest common ancestor.
C5_BranchesAndAncestor ==
  (CAReturned /\ DifferentBranches /\ WithinLimit) =>
     /\ caErr = ErrNil
     /\ ancestor # zeroHash
     /\ ChainFromTo(chainA, ancestor, tipA)
     /\ ChainFromTo(chainB, ancestor, tipB)
     /\ ancestor \notin SeqElems(chainA) \cup SeqElems(chainB)
     /\ SeqElems(chainA) \cap SeqElems(chainB) = {}
     /\ ancestor \in Ancestors(tipA) \cap Ancestors(tipB)
     /\ \A y \in Ancestors(tipA) \cap Ancestors(tipB) :
          HeaderHeight(y) <= HeaderHeight(ancestor)

C5_Witness ==
  /\ CAReturned /\ DifferentBranches /\ caErr = ErrNil
  /\ Len(chainA) >= 2 /\ Len(chainB) >= 1
  /\ HeaderHeight(ancestor) >= 1

\* the tip that lies on the other tip's chain, when there is one
LowerTip == IF tipA \in AncOrSelf(tipB) THEN tipA ELSE tipB

\* C6: CommonAncestor never returns an input tip as the ancestor; when one tip
\* is an ancestor of (or equal to) the other and is not genesis, the ancestor is
\* that tip's previous block, and the tip is the first element of both
\* (non-empty) chains.
C6_TipIsNeverAncestor ==
  /\ (CAReturned /\ caErr = ErrNil) => ancestor \notin {tipA, tipB}
  /\ (CAReturned /\ ~DifferentBranches /\ WithinLimit
        /\ prevBlock[LowerTip] # zeroHash) =>
       /\ caErr = ErrNil
       /\ ancestor = prevBlock[LowerTip]
       /\ Len(chainA) >= 1 /\ Len(chainB) >= 1
       /\ chainA[1] = LowerTip /\ chainB[1] = LowerTip

C6_Witness ==
  /\ CAReturned /\ caErr = ErrNil
  /\ tipA \in Ancestors(tipB)
  /\ ancestor = prevBlock[tipA]
  /\ Len(chainB) >= 2

IsGenesis(h) == prevBlock[h] = zeroHash

C7_State ==
  /\ (caPc = "done" /\ caErr = ErrAncestorAtGenesis) =>
       /\ ancestor = zeroHash
       /\ KnownTips
       /\ HeaderHeight(hashA) = HeaderHeight(hashB)
       /\ prevBlock[hashA] = zeroHash
       /\ IsGenesis(tipA) \/ IsGenesis(tipB)
  /\ (CAReturned /\ WithinLimit /\ (IsGenesis(tipA) \/ IsGenesis(tipB))) =>
       caErr = ErrAncestorAtGenesis
  /\ (CAReturned /\ WithinLimit /\ ~IsGenesis(tipA) /\ ~IsGenesis(tipB)) =>
       (caErr = ErrNil /\ ancestor # zeroHash)

C7_Step ==
  LET atZero == /\ caPc = "loop" /\ length < maxLen
                /\ GetBlockOK(hashA) /\ GetBlockOK(hashB)
                /\ HeaderHeight(hashA) = HeaderHeight(hashB)
                /\ prevBlock[hashA] = zeroHash
  IN  (caPc = "loop" /\ caPc' = "done") =>
        (atZero <=> caErr' = ErrAncestorAtGenesis)

\* C7: ErrAncestorAtGenesis (with a nil ancestor) is returned exactly when the
\* walk reaches, with both cursors at equal height, a block whose previous hash
\* is the zero hash; with a single genesis block this happens if and only if
\* an input tip is genesis, and two non-genesis tips yield an ancestor.
C7_AtGenesis == []C7_State /\ [][C7_Step]_vars

C7_Witness ==
  /\ caPc = "done" /\ caErr = ErrAncestorAtGenesis
  /\ tipA # tipB /\ Len(chainB) >= 2

\* C8: the walk performs at most maxAncestorChainLength loop iterations; when
\* no result is determined within that many iterations it returns
\* ErrAncestorMaxChainLength with a nil ancestor and nil chains, and an
\* ancestor reachable within the limit is returned.
C8_BoundedWalk ==
  /\ iters <= maxLen
  /\ iters = length \/ (caPc = "done" /\ caErr = ErrGetBlock)
  /\ CAReturned =>
       /\ (caErr = ErrAncestorMaxChainLength) <=> ~WithinLimit
       /\ caErr = ErrAncestorMaxChainLength =>
            (ancestor = zeroHash /\ chainA = <<>> /\ chainB = <<>> /\ iters = maxLen)
       /\ (WithinLimit /\ ~IsGenesis(tipA) /\ ~IsGenesis(tipB)) =>
            /\ caErr = ErrNil
            /\ ancestor \in AncOrSelf(tipA) \cap AncOrSelf(tipB)
            /\ iters = WalkLength(tipA, tipB)

C8_Witness ==
  /\ CAReturned /\ caErr = ErrAncestorMaxChainLength
  /\ iters = maxLen /\ maxLen >= 2

C8_WitnessFound ==
  /\ CAReturned /\ caErr = ErrNil /\ iters = maxLen



(* ========================= dcrsqlite.resyncDB ========================== *)
rescanLogBlockChunk == 1000

ErrGetBestBlock == "GetBestBlock failed"
ErrCorrupted == "SQLite database (dcrdata.sqlt.db) is corrupted"
ErrDeleteStakeDB == "delete stake db (ffldb_stake) and try again"
ErrRewind == "RewindStakeDB failed"
ErrFetchToHeight == "fetchToHeight may not be less than stakedb height"
ErrServerBehind == "chain server behind DBs"
ErrGetBlockI == "getBlock failed"
ErrGateBlock == "blockGetter.Block failed"
ErrConnect == "ConnectBlock failed"
ErrStoreSummary == "Unable to store block summary in database"
ErrStoreStakeInfo == "Unable to store stake info in database"
ErrRequery == "rpcclient.GetBestBlock failed"

LowestOfSqlite(summary, stakeInfo, stakeDB) ==
  IF summary < stakeInfo THEN summary ELSE stakeInfo
\* DBHeights: lowest of the summary, stake info and stake DB heights
Lowest(summary, stakeInfo, stakeDB) ==
  LET l1 == IF summary < stakeInfo THEN summary ELSE stakeInfo
  IN  IF stakeDB < l1 THEN stakeDB ELSE l1

NeedsRewindFarAhead(stakeDB, dbHeight) == stakeDB > dbHeight + 1 /\ stakeDB > 0
\* stakeDBHeight > dbHeight && stakeDBHeight > 0 (line 137)
NeedsRewind(stakeDB, dbHeight) == stakeDB > dbHeight /\ stakeDB > 0

TooFarAheadInclusive(stakeDB, dbHeight) == dbHeight < 0 \/ stakeDB >= 2 * dbHeight
\* dbHeight < 0 || stakeDBHeight > 2*dbHeight
TooFarAhead(stakeDB, dbHeight) == dbHeight < 0 \/ stakeDB > 2 * dbHeight




SyReturn(h, e) ==
  /\ syPc' = "done"
  /\ retHeight' = h
  /\ retErr' = e

SyNewRun ==
  [NoRun EXCEPT !.entryH = summaryHeight, !.entryInfo = stakeInfoHeight,
                !.entryS = sdbHeight, !.afterFail = run.failedCommit]

\* resyncDB entry, lines 100-147: GetBestBlock, DBHeights, the corruption check
\* and the decision to rewind the stake DB.  A run starts with a fresh context.
SyCall(master, fetchToHeight, barLoad, updateExplorer, rpcOK) ==
  /\ syPc \in {"idle", "done"}
  /\ ctxDone' = FALSE
  /\ run' = SyNewRun
  /\ rw' = NoRewind
  /\ LET dbHeight == Lowest(summaryHeight, stakeInfoHeight, sdbHeight)
         frame == [NoFrame EXCEPT !.master = master, !.fetchToHeight = fetchToHeight,
                     !.barLoad = barLoad, !.updateExplorer = updateExplorer,
                     !.height = nodeHeight, !.dbHeight = dbHeight,
                     !.summaryHeight = summaryHeight,
                     !.stakeInfoHeight = stakeInfoHeight,
                     !.stakeDBHeight = sdbHeight]
     IN  IF ~rpcOK
           THEN /\ SyReturn(-1, ErrGetBestBlock) /\ rs' = NoFrame
           ELSE IF stakeInfoHeight # summaryHeight
           THEN /\ SyReturn(-1, ErrCorrupted) /\ rs' = frame
           ELSE IF NeedsRewind(sdbHeight, dbHeight)
           THEN IF TooFarAhead(sdbHeight, dbHeight)
                  THEN /\ SyReturn(-1, ErrDeleteStakeDB) /\ rs' = frame
                  ELSE /\ syPc' = "rewind" /\ rs' = frame
                       /\ retHeight' = 0 /\ retErr' = ErrNil
           ELSE /\ syPc' = "start" /\ rs' = frame
                /\ retHeight' = 0 /\ retErr' = ErrNil
  /\ waitChan' = -1
  /\ UNCHANGED <<nodeHeight, summaryHeight, stakeInfoHeight, sdbHeight>>
  /\ UNCHANGED <<caVars, dbVars, moreVars>>

\* RewindStakeDB entry, lines 69-74
SyRewindCall ==
  /\ syPc = "rewind"
  /\ rw' = [toHeight |-> IF rs.dbHeight < 0 THEN 0 ELSE rs.dbHeight,
            stakeDBHeight |-> sdbHeight]
  /\ syPc' = "rewindLoop"
  /\ UNCHANGED <<nodeHeight, summaryHeight, stakeInfoHeight, sdbHeight, ctxDone,
                 rs, retHeight, retErr, run>>
  /\ UNCHANGED <<waitChan, caVars, dbVars, moreVars>>

\* RewindStakeDB loop, lines 75-91: the quit signal is seen, RewindStakeDB
\* returns its current height and a nil error
SyRewindCancelled ==
  /\ syPc = "rewindLoop"
  /\ rw.stakeDBHeight > rw.toHeight
  /\ ctxDone
  /\ rs' = [rs EXCEPT !.stakeDBHeight = rw.stakeDBHeight]
  /\ syPc' = "start"
  /\ UNCHANGED <<nodeHeight, summaryHeight, stakeInfoHeight, sdbHeight, ctxDone,
                 rw, retHeight, retErr, run>>
  /\ UNCHANGED <<waitChan, caVars, dbVars, moreVars>>

\* db.sDB.DisconnectBlock fails: resyncDB returns dbHeight and the error
SyRewindDisconnectFail ==
  /\ syPc = "rewindLoop"
  /\ rw.stakeDBHeight > rw.toHeight
  /\ ~ctxDone
  /\ SyReturn(rs.dbHeight, ErrRewind)
  /\ UNCHANGED <<nodeHeight, summaryHeight, stakeInfoHeight, sdbHeight, ctxDone,
                 rs, rw, run>>
  /\ UNCHANGED <<waitChan, caVars, dbVars, moreVars>>

\* db.sDB.DisconnectBlock succeeds
SyRewindDisconnect ==
  /\ syPc = "rewindLoop"
  /\ rw.stakeDBHeight > rw.toHeight
  /\ ~ctxDone
  /\ sdbHeight' = sdbHeight - 1
  /\ rw' = [rw EXCEPT !.stakeDBHeight = sdbHeight - 1]
  /\ run' = [run EXCEPT !.disconnects = @ + 1]
  /\ UNCHANGED <<nodeHeight, summaryHeight, stakeInfoHeight, ctxDone, syPc,
                 rs, retHeight, retErr>>
  /\ UNCHANGED <<waitChan, caVars, dbVars, moreVars>>

\* the loop condition stakeDBHeight > toHeight is false
SyRewindDone ==
  /\ syPc = "rewindLoop"
  /\ ~(rw.stakeDBHeight > rw.toHeight)
  /\ rs' = [rs EXCEPT !.stakeDBHeight = rw.stakeDBHeight]
  /\ syPc' = "start"
  /\ UNCHANGED <<nodeHeight, summaryHeight, stakeInfoHeight, sdbHeight, ctxDone,
                 rw, retHeight, retErr, run>>
  /\ UNCHANGED <<waitChan, caVars, dbVars, moreVars>>

StartHeightSkipping(master, fetchToHeight, dbHeight) == dbHeight + 2
\* lines 153-178
StartHeight(master, fetchToHeight, dbHeight) ==
  IF ~master
    THEN IF fetchToHeight > dbHeight THEN dbHeight + 1 ELSE dbHeight
    ELSE dbHeight + 1

\* lines 149-189: start height and the number of blocks to check
SyStart ==
  /\ syPc = "start"
  /\ LET startHeight == StartHeight(rs.master, rs.fetchToHeight, rs.dbHeight)
         minBlocksToCheck == rs.height - rs.dbHeight
     IN  IF ~rs.master /\ rs.fetchToHeight < rs.stakeDBHeight
           THEN /\ SyReturn(rs.dbHeight, ErrFetchToHeight) /\ UNCHANGED rs
           ELSE IF minBlocksToCheck < 0
           THEN /\ SyReturn(rs.dbHeight, ErrServerBehind)
                /\ rs' = [rs EXCEPT !.startHeight = startHeight]
           ELSE IF minBlocksToCheck < 1
           THEN /\ SyReturn(rs.height, ErrNil)
                /\ rs' = [rs EXCEPT !.startHeight = startHeight]
           ELSE /\ syPc' = IF rs.barLoad THEN "sendInit" ELSE "loopTop"
                /\ rs' = [rs EXCEPT !.startHeight = startHeight, !.i = startHeight]
                /\ UNCHANGED <<retHeight, retErr>>
  /\ UNCHANGED <<nodeHeight, summaryHeight, stakeInfoHeight, sdbHeight, ctxDone,
                 rw, run>>
  /\ UNCHANGED <<waitChan, caVars, dbVars, moreVars>>

\* lines 192-197: the send of the initial progress value on barLoad completes
\* (a receiver takes it, or the channel has room)
SyBarLoadInit ==
  /\ syPc = "sendInit"
  /\ syPc' = "loopTop"
  /\ UNCHANGED <<nodeHeight, summaryHeight, stakeInfoHeight, sdbHeight, ctxDone,
                 rs, rw, retHeight, retErr, run>>
  /\ UNCHANGED <<waitChan, caVars, dbVars, moreVars>>

\* for i := startHeight; i <= height; i++ : the loop condition is false
LoopEnded == syPc = "loopTop" /\ ~(rs.i <= rs.height)

\* lines 375-383: the send of the "sync complete" value on barLoad completes
SyBarLoadDone ==
  /\ LoopEnded
  /\ rs.barLoad
  /\ syPc' = "finish"
  /\ UNCHANGED <<nodeHeight, summaryHeight, stakeInfoHeight, sdbHeight, ctxDone,
                 rs, rw, retHeight, retErr, run>>
  /\ UNCHANGED <<waitChan, caVars, dbVars, moreVars>>

\* the loop has ended, lines 385-400: DBHeights and the final check
SyFinish ==
  /\ \/ LoopEnded /\ ~rs.barLoad
     \/ syPc = "finish"
  /\ IF stakeInfoHeight # summaryHeight
       THEN SyReturn(-1, ErrCorrupted)
       ELSE SyReturn(rs.height, ErrNil)
  /\ rs' = [rs EXCEPT !.summaryHeight = summaryHeight,
                      !.stakeInfoHeight = stakeInfoHeight,
                      !.stakeDBHeight = sdbHeight]
  /\ UNCHANGED <<nodeHeight, summaryHeight, stakeInfoHeight, sdbHeight, ctxDone,
                 rw, run>>
  /\ UNCHANGED <<waitChan, caVars, dbVars, moreVars>>

CancelledHeightBehind(i) == i - 2
\* return i - 1, nil (lines 205 and 232)
CancelledHeight(i) == i - 1

\* lines 201-207: quit signal at the loop top
SyLoopCancelled ==
  /\ syPc = "loopTop"
  /\ rs.i <= rs.height
  /\ ctxDone
  /\ SyReturn(CancelledHeight(rs.i), ErrNil)
  /\ UNCHANGED <<nodeHeight, summaryHeight, stakeInfoHeight, sdbHeight, ctxDone,
                 rs, rw, run>>
  /\ UNCHANGED <<waitChan, caVars, dbVars, moreVars>>

\* lines 208-218: no quit signal; choose how block i is obtained
SyLoopTop ==
  /\ syPc = "loopTop"
  /\ rs.i <= rs.height
  /\ ~ctxDone
  /\ syPc' = IF rs.master \/ rs.i < rs.fetchToHeight THEN "fetch" ELSE "wait"
  /\ rs' = [rs EXCEPT !.connected = FALSE, !.blockhash = 0, !.via = "none",
                      !.fetched = 0]
  /\ run' = [run EXCEPT !.firstI = IF @ = -1 THEN rs.i ELSE @]
  /\ UNCHANGED <<nodeHeight, summaryHeight, stakeInfoHeight, sdbHeight, ctxDone,
                 rw, retHeight, retErr>>
  /\ UNCHANGED <<waitChan, caVars, dbVars, moreVars>>

\* the hash of the main chain block at height i, as the node reports it
BlockHashAt(i) == i + 1

\* the hashes the block gate can signal while block i is awaited: the main chain
\* block or a side chain block
GateHashes(i) == {BlockHashAt(i), -BlockHashAt(i)}

\* lines 219-225: db.getBlock(i)
SyGetBlock(ok) ==
  /\ syPc = "fetch"
  /\ IF ok
       THEN /\ syPc' = "connect"
            /\ rs' = [rs EXCEPT !.blockhash = BlockHashAt(rs.i), !.via = "node",
                                !.fetched = BlockHashAt(rs.i)]
            /\ UNCHANGED <<retHeight, retErr>>
       ELSE /\ SyReturn(rs.i - 1, ErrGetBlockI)
            /\ UNCHANGED rs
  /\ UNCHANGED <<nodeHeight, summaryHeight, stakeInfoHeight, sdbHeight, ctxDone,
                 rw, run>>
  /\ UNCHANGED <<waitChan, caVars, dbVars, moreVars>>

\* lines 228-229: a block hash arrives on db.waitChan
SyWaitRecv ==
  /\ syPc = "wait"
  /\ \E hash \in GateHashes(rs.i) : rs' = [rs EXCEPT !.blockhash = hash]
  /\ syPc' = "gateBlock"
  /\ UNCHANGED <<nodeHeight, summaryHeight, stakeInfoHeight, sdbHeight, ctxDone,
                 rw, retHeight, retErr, run>>
  /\ UNCHANGED <<waitChan, caVars, dbVars, moreVars>>

GateBlockByHeight(blockhash, i) == BlockHashAt(i)
\* the argument of blockGetter.Block, line 234
GateBlockArg(blockhash, i) == blockhash

\* the argument of blockGetter.WaitForHeight, line 240
WaitForHeightArg(i) == i + 1

\* lines 234-240: blockGetter.Block(blockhash), then the wait channel for the
\* next height is registered
SyGateBlock(ok) ==
  /\ syPc = "gateBlock"
  /\ IF ok
       THEN /\ syPc' = "connect"
            /\ rs' = [rs EXCEPT !.via = "gate",
                                !.fetched = GateBlockArg(rs.blockhash, rs.i)]
            /\ waitChan' = WaitForHeightArg(rs.i)
            /\ UNCHANGED <<retHeight, retErr>>
       ELSE /\ SyReturn(rs.i - 1, ErrGateBlock)
            /\ UNCHANGED <<rs, waitChan>>
  /\ UNCHANGED <<nodeHeight, summaryHeight, stakeInfoHeight, sdbHeight, ctxDone,
                 rw, run>>
  /\ UNCHANGED <<caVars, dbVars, moreVars>>

\* lines 230-232: the quit signal is received while waiting
SyWaitCancelled ==
  /\ syPc = "wait"
  /\ ctxDone
  /\ SyReturn(CancelledHeight(rs.i), ErrNil)
  /\ UNCHANGED <<nodeHeight, summaryHeight, stakeInfoHeight, sdbHeight, ctxDone,
                 rs, rw, run>>
  /\ UNCHANGED <<waitChan, caVars, dbVars, moreVars>>

\* line 256: a new chunk of rescanLogBlockChunk blocks is announced
LogsChunk(i, startHeight) ==
  ((i - 1) % rescanLogBlockChunk = 0 /\ i - 1 # startHeight) \/ i = startHeight

\* lines 256-268: a progress value is sent on barLoad
SendsProgress(i, startHeight, barLoad) ==
  LogsChunk(i, startHeight) /\ i # 0 /\ barLoad

AfterConnect ==
  IF SendsProgress(rs.i, rs.startHeight, rs.barLoad) THEN "sendProgress" ELSE "store"

\* lines 246-254: i <= stakeDBHeight, no ConnectBlock
SyConnectSkip ==
  /\ syPc = "connect"
  /\ ~(rs.i > rs.stakeDBHeight)
  /\ rs' = [rs EXCEPT !.stakeDBHeight = sdbHeight]
  /\ syPc' = AfterConnect
  /\ UNCHANGED <<nodeHeight, summaryHeight, stakeInfoHeight, sdbHeight, ctxDone,
                 rw, retHeight, retErr, run>>
  /\ UNCHANGED <<waitChan, caVars, dbVars, moreVars>>

\* lines 246-254: db.sDB.ConnectBlock(block)
SyConnectBlock(ok) ==
  /\ syPc = "connect"
  /\ rs.i > rs.stakeDBHeight
  /\ IF ok
       THEN /\ sdbHeight' = sdbHeight + 1
            /\ rs' = [rs EXCEPT !.stakeDBHeight = sdbHeight + 1, !.connected = TRUE]
            /\ run' = [run EXCEPT !.connects = @ \cup {rs.i}]
            /\ syPc' = AfterConnect
            /\ UNCHANGED <<retHeight, retErr>>
       ELSE /\ SyReturn(rs.i - 1, ErrConnect)
            /\ UNCHANGED <<sdbHeight, rs, run>>
  /\ UNCHANGED <<nodeHeight, summaryHeight, stakeInfoHeight, ctxDone, rw>>
  /\ UNCHANGED <<waitChan, caVars, dbVars, moreVars>>

\* lines 268-280: the send of the progress value on barLoad completes
SyBarLoadProgress ==
  /\ syPc = "sendProgress"
  /\ syPc' = "store"
  /\ UNCHANGED <<nodeHeight, summaryHeight, stakeInfoHeight, sdbHeight, ctxDone,
                 rs, rw, retHeight, retErr, run>>
  /\ UNCHANGED <<waitChan, caVars, dbVars, moreVars>>

\* lines 284-291: SQLite is ahead, on to the next block
SySqliteAhead ==
  /\ syPc = "store"
  /\ rs.i <= rs.summaryHeight /\ rs.i <= rs.stakeInfoHeight
  /\ syPc' = "requeryAhead"
  /\ UNCHANGED <<nodeHeight, summaryHeight, stakeInfoHeight, sdbHeight, ctxDone,
                 rs, rw, retHeight, retErr, run>>
  /\ UNCHANGED <<waitChan, caVars, dbVars, moreVars>>

\* lines 318-333: StoreBlockSummary when i > summaryHeight
SyStoreBlockSummary(ok) ==
  /\ syPc = "store"
  /\ ~(rs.i <= rs.summaryHeight /\ rs.i <= rs.stakeInfoHeight)
  /\ IF rs.i > rs.summaryHeight
       THEN IF ok
              THEN /\ summaryHeight' = rs.i
                   /\ rs' = [rs EXCEPT !.summaryHeight = rs.i]
                   /\ run' = [run EXCEPT !.stores = @ \cup {<<"summary", rs.i>>}]
                   /\ syPc' = IF rs.i <= rs.stakeInfoHeight THEN "requeryMid" ELSE "stakeInfo"
                   /\ UNCHANGED <<retHeight, retErr>>
              ELSE /\ SyReturn(rs.i - 1, ErrStoreSummary)
                   /\ run' = [run EXCEPT !.failedCommit =
                                IF rs.connected THEN rs.i ELSE @]
                   /\ UNCHANGED <<summaryHeight, rs>>
       ELSE /\ syPc' = IF rs.i <= rs.stakeInfoHeight THEN "requeryMid" ELSE "stakeInfo"
            /\ UNCHANGED <<summaryHeight, rs, run, retHeight, retErr>>
  /\ UNCHANGED <<nodeHeight, stakeInfoHeight, sdbHeight, ctxDone, rw>>
  /\ UNCHANGED <<waitChan, caVars, dbVars, moreVars>>

\* lines 335-358: StoreStakeInfoExtended
SyStoreStakeInfo(ok) ==
  /\ syPc = "stakeInfo"
  /\ IF ok
       THEN /\ stakeInfoHeight' = rs.i
            /\ rs' = [rs EXCEPT !.stakeInfoHeight = rs.i]
            /\ run' = [run EXCEPT !.stores = @ \cup {<<"stakeInfo", rs.i>>}]
            /\ syPc' = IF rs.updateExplorer /\ rs.i % 200 = 0
                         THEN "sendExplorer" ELSE "requeryEnd"
            /\ UNCHANGED <<retHeight, retErr>>
       ELSE /\ SyReturn(rs.i - 1, ErrStoreStakeInfo)
            /\ UNCHANGED <<stakeInfoHeight, rs, run>>
  /\ UNCHANGED <<nodeHeight, summaryHeight, sdbHeight, ctxDone, rw>>
  /\ UNCHANGED <<waitChan, caVars, dbVars, moreVars>>

\* lines 361-367: the send of the block hash on updateExplorer completes; the
\* send on db.updateStatusChan that follows never blocks (select with default)
SyUpdateExplorer ==
  /\ syPc = "sendExplorer"
  /\ syPc' = "requeryEnd"
  /\ UNCHANGED <<nodeHeight, summaryHeight, stakeInfoHeight, sdbHeight, ctxDone,
                 rs, rw, retHeight, retErr, run>>
  /\ UNCHANGED <<waitChan, caVars, dbVars, moreVars>>

RequeryIgnored(height, best) == height
\* _, height, err = db.client.GetBestBlock()
Requeried(height, best) == best

\* lines 287-290, 329-332, 370-372: update height, the end condition of the loop
SyRequery(ok) ==
  /\ syPc \in {"requeryAhead", "requeryMid", "requeryEnd"}
  /\ IF ok
       THEN /\ rs' = [rs EXCEPT !.height = Requeried(rs.height, nodeHeight),
                                !.i = rs.i + 1]
            /\ run' = [run EXCEPT !.processed = @ \cup {rs.i}]
            /\ syPc' = "loopTop"
            /\ UNCHANGED <<retHeight, retErr>>
       ELSE /\ SyReturn(IF syPc = "requeryEnd" THEN rs.i ELSE rs.i - 1, ErrRequery)
            /\ UNCHANGED <<rs, run>>
  /\ UNCHANGED <<nodeHeight, summaryHeight, stakeInfoHeight, sdbHeight, ctxDone,
                 rw>>
  /\ UNCHANGED <<waitChan, caVars, dbVars, moreVars>>

\* the places where resyncDB reads ctx.Done() (lines 80-85, 202-207, 228-233)
\* or is parked in a channel send
CancelPoints == {"rewindLoop", "loopTop", "wait", "sendInit", "sendProgress",
                 "sendExplorer"}

\* the context of the running sync is cancelled; a cancellation between two of
\* these places is seen by resyncDB at the next of them
SyCancel ==
  /\ syPc \in CancelPoints
  /\ ~ctxDone
  /\ ctxDone' = TRUE
  /\ UNCHANGED <<nodeHeight, summaryHeight, stakeInfoHeight, sdbHeight, syPc,
                 rs, rw, retHeight, retErr, run>>
  /\ UNCHANGED <<waitChan, caVars, dbVars, moreVars>>

\* the places where the node's best height is read next: GetBestBlock at the
\* entry (line 103) and after a block (lines 287, 329, 370)
BestBlockReads == {"idle", "done", "requeryAhead", "requeryMid", "requeryEnd"}

\* the chain server connects a new best block; what counts is its best height
\* at the next GetBestBlock
NodeNewBlock ==
  /\ syPc \in BestBlockReads
  /\ nodeHeight < MaxHeight
  /\ nodeHeight' = nodeHeight + 1
  /\ UNCHANGED <<summaryHeight, stakeInfoHeight, sdbHeight, ctxDone, syPc,
                 rs, rw, retHeight, retErr, run>>
  /\ UNCHANGED <<waitChan, caVars, dbVars, moreVars>>

CAIdle ==
  /\ prevBlock = [h \in Hashes |-> h - 1]
  /\ maxLen = maxAncestorChainLength
  /\ caPc = "idle"
  /\ tipA = zeroHash /\ tipB = zeroHash
  /\ hashA = zeroHash /\ hashB = zeroHash
  /\ chainA = <<>> /\ chainB = <<>>
  /\ length = 0 /\ iters = 0
  /\ ancestor = zeroHash /\ caErr = ErrNil


\* the databases as a start of dcrdata can find them: SQLite tables level,
\* the stake DB (which always holds genesis) behind, level or ahead
SyInit ==
  /\ nodeHeight \in 0..MaxHeight
  /\ summaryHeight \in (-1)..MaxHeight
  /\ stakeInfoHeight = summaryHeight
  /\ sdbHeight \in 0..MaxHeight
  /\ ctxDone = FALSE
  /\ waitChan = -1
  /\ syPc = "idle"
  /\ rs = NoFrame /\ rw = NoRewind
  /\ retHeight = 0 /\ retErr = ErrNil
  /\ run = NoRun
  /\ CAIdle
  /\ DBIdle
  /\ MoreIdle

\* (master, fetchToHeight): fetchToHeight is read in coordinated mode only
SyncModes == {<<TRUE, 0>>} \cup {<<FALSE, f>> : f \in 0..MaxHeight}

SyNext ==
  \/ \E m \in SyncModes, barLoad, updateExplorer, rpcOK \in BOOLEAN :
       SyCall(m[1], m[2], barLoad, updateExplorer, rpcOK)
  \/ SyRewindCall
  \/ SyRewindCancelled
  \/ SyRewindDisconnectFail
  \/ SyRewindDisconnect
  \/ SyRewindDone
  \/ SyStart
  \/ SyBarLoadInit
  \/ SyBarLoadDone
  \/ SyFinish
  \/ SyLoopCancelled
  \/ SyLoopTop
  \/ \E ok \in BOOLEAN : SyGetBlock(ok)
  \/ SyWaitRecv
  \/ \E ok \in BOOLEAN : SyGateBlock(ok)
  \/ SyWaitCancelled
  \/ SyConnectSkip
  \/ \E ok \in BOOLEAN : SyConnectBlock(ok)
  \/ SyBarLoadProgress
  \/ SySqliteAhead
  \/ \E ok \in BOOLEAN : SyStoreBlockSummary(ok)
  \/ \E ok \in BOOLEAN : SyStoreStakeInfo(ok)
  \/ SyUpdateExplorer
  \/ \E ok \in BOOLEAN : SyRequery(ok)
  \/ SyCancel
  \/ NodeNewBlock

SpecSync == SyInit /\ [][SyNext]_vars

\* resyncDB is inside its loop (lines 200-373)
LoopPcs == {"loopTop", "fetch", "wait", "gateBlock", "connect", "sendProgress",
            "store", "stakeInfo", "sendExplorer", "requeryAhead", "requeryMid",
            "requeryEnd"}

\* the steps of a run in which no call fails and every channel has its other
\* end: barLoad and updateExplorer are received from, the gate sends the hash
SyRunStep ==
  \/ SyRewindCall
  \/ SyRewindDisconnect
  \/ SyRewindDone
  \/ SyStart
  \/ SyBarLoadInit
  \/ SyBarLoadDone
  \/ SyFinish
  \/ SyLoopTop
  \/ SyGetBlock(TRUE)
  \/ SyWaitRecv
  \/ SyGateBlock(TRUE)
  \/ SyConnectSkip
  \/ SyConnectBlock(TRUE)
  \/ SyBarLoadProgress
  \/ SySqliteAhead
  \/ SyStoreBlockSummary(TRUE)
  \/ SyStoreStakeInfo(TRUE)
  \/ SyUpdateExplorer
  \/ SyRequery(TRUE)

SyLiveNext ==
  \/ \E m \in SyncModes, barLoad, updateExplorer \in BOOLEAN :
       SyCall(m[1], m[2], barLoad, updateExplorer, TRUE)
  \/ SyRunStep
  \/ NodeNewBlock

\* runs without error and without cancellation; the goroutine of resyncDB is
\* scheduled and its calls return, so a step that stays possible is taken
SpecSyncLive == SyInit /\ [][SyLiveNext]_vars /\ WF_vars(SyRunStep)



(* --------------------- properties of resyncDB -------------------------- *)
\* the run started with both SQLite tables at height h >= 0 and the stake DB above
EntryStakeAhead ==
  /\ syPc # "idle"
  /\ run.entryH >= 0 /\ run.entryInfo = run.entryH
  /\ run.entryS > run.entryH

\* C9: at the start of resyncDB with SQLite best height h >= 0 and stake DB
\* height s > h: if s <= 2h the stake DB is rewound one DisconnectBlock at a
\* time until its height is h before any block is processed; if s > 2h
\* resyncDB returns an error without disconnecting or storing anything.
C9_RewindOrAbort ==
  LET h == run.entryH
      s == run.entryS
  IN  EntryStakeAhead =>
        /\ s <= 2 * h =>
             /\ run.disconnects <= s - h
             /\ run.firstI = -1 => sdbHeight = s - run.disconnects
             /\ run.firstI # -1 => run.disconnects = s - h
             /\ (syPc \in {"fetch", "wait"} /\ rs.i = run.firstI) => sdbHeight = h
             /\ sdbHeight >= h
             /\ syPc = "done" => retErr # ErrDeleteStakeDB
        /\ s > 2 * h =>
             /\ syPc = "done"
             /\ retErr \in {ErrDeleteStakeDB, ErrGetBestBlock}
             /\ retHeight = -1
             /\ run.disconnects = 0 /\ sdbHeight = s
             /\ run.connects = {} /\ run.stores = {} /\ run.firstI = -1
             /\ summaryHeight = h /\ stakeInfoHeight = h

C9_Witness ==
  /\ EntryStakeAhead
  /\ run.entryS <= 2 * run.entryH
  /\ syPc = "fetch" /\ rs.i = run.firstI
  /\ run.disconnects >= 2
  /\ sdbHeight = run.entryH

C9_WitnessAbort ==
  /\ EntryStakeAhead
  /\ run.entryS > 2 * run.entryH
  /\ retErr = ErrDeleteStakeDB

\* the previous run connected block i to the stake DB and then failed to store it
AfterFailedCommit ==
  /\ syPc # "idle"
  /\ run.afterFail >= 1
  /\ run.entryH = run.afterFail - 1 /\ run.entryInfo = run.entryH
  /\ run.entryS = run.entryH + 1

\* once the loop runs, exactly one block was disconnected, and block i is the
\* first block connected to the stake DB and the first block stored
ResumesAfterRewindByOne ==
  /\ run.firstI # -1 =>
       /\ run.disconnects = 1
       /\ run.firstI \in {run.afterFail - 1, run.afterFail}
  /\ run.connects # {} => run.afterFail \in run.connects
  /\ \A c \in run.connects : c >= run.afterFail
  /\ \A sr \in run.stores : sr[2] >= run.afterFail

\* C10: after a run that connected block i to the stake DB and failed to commit
\* it (stake DB height = store best height + 1), the next run rewinds the stake
\* DB by exactly one block and resumes from block i, for every store best
\* height >= 0, height 0 included.
C10_RewindByOneAfterFailedCommit ==
  AfterFailedCommit =>
    /\ syPc = "done" => retErr # ErrDeleteStakeDB
    /\ ResumesAfterRewindByOne

\* the same for store best heights >= 1
C10_AboveGenesis ==
  (AfterFailedCommit /\ run.entryH >= 1) =>
    /\ syPc = "done" => retErr # ErrDeleteStakeDB
    /\ ResumesAfterRewindByOne

\* a failed commit always leaves the stake DB one block above the store
C10_FailedCommitShape ==
  (syPc # "idle" /\ run.afterFail >= 1) => AfterFailedCommit

\* the height of the last block whose summary and stake info are both stored
StoredHeight == IF summaryHeight < stakeInfoHeight THEN summaryHeight ELSE stakeInfoHeight

\* errors returned from inside the block loop
LoopErrors == {ErrGetBlockI, ErrGateBlock, ErrConnect, ErrStoreSummary,
               ErrStoreStakeInfo, ErrRequery}

\* C11: whenever resyncDB returns a non-nil error from inside its block loop,
\* the height it returns is the height of the last block completely stored in
\* SQLite (block summary and stake info) at that moment.
C11_ErrorReturnsStoredHeight ==
  (syPc = "done" /\ retErr \in LoopErrors) => retHeight = StoredHeight

\* the run began with the stake DB not behind SQLite and starts at the block
\* after the stored one
StartsAfterStored ==
  /\ run.entryS >= run.entryH
  /\ rs.master \/ rs.fetchToHeight > rs.dbHeight

\* the same for runs that begin at the first block that is not stored
C11_WhenStartingAfterStored ==
  (syPc = "done" /\ retErr \in LoopErrors /\ StartsAfterStored)
    => retHeight = StoredHeight

\* C12: after resyncDB returns with an error at any point of processing a
\* block, the block summary height equals the stake info height, or the next
\* run completes the block: no run reports the SQLite database as corrupted.
C12_NeverCorrupted ==
  syPc = "done" => retErr # ErrCorrupted

\* resyncDB returned because it saw the quit signal in its loop: a nil error
\* and a height below the loop's end
CancelReturn ==
  /\ syPc = "done" /\ retErr = ErrNil
  /\ ctxDone
  /\ retHeight < rs.height

\* C13: when the context is cancelled during resyncDB, it returns a nil error
\* and the height of the last block committed to the store, at the loop top as
\* well as while waiting on the block-available channel.
C13_CancelReturnsCommittedHeight ==
  /\ CancelReturn => (retHeight = summaryHeight /\ retHeight = stakeInfoHeight)
  /\ (syPc = "done" /\ ctxDone) => retErr = ErrNil

StoredBoth(h) == <<"summary", h>> \in run.stores /\ <<"stakeInfo", h>> \in run.stores

StoredNeither(h) ==
  <<"summary", h>> \notin run.stores /\ <<"stakeInfo", h>> \notin run.stores

\* C14: cancellation never leaves a partially processed block: when resyncDB
\* returns height r because of cancellation, this run connected no block above
\* r to the stake DB and stored, for every height, both the block summary and
\* the stake info or neither; every block the run took up was completed.
C14_CancelLeavesNoPartialBlock ==
  CancelReturn =>
    /\ \A c \in run.connects : c <= retHeight
    /\ \A h \in 0..MaxHeight : StoredBoth(h) \/ StoredNeither(h)
    /\ \A sr \in run.stores : sr[2] <= retHeight
    /\ run.firstI # -1 => run.processed = run.firstI..retHeight
    /\ summaryHeight = stakeInfoHeight

C14_Witness ==
  /\ CancelReturn
  /\ run.connects # {} /\ run.stores # {}
  /\ retHeight \in run.connects /\ StoredBoth(retHeight)

\* a step resyncDB can take by itself: no receiver on barLoad or updateExplorer,
\* no block hash from the gate and no new call are needed for it
SyOwnStep ==
  \/ SyRewindCall
  \/ SyRewindCancelled
  \/ SyRewindDisconnectFail
  \/ SyRewindDisconnect
  \/ SyRewindDone
  \/ SyStart
  \/ SyFinish
  \/ SyLoopCancelled
  \/ SyLoopTop
  \/ \E ok \in BOOLEAN : SyGetBlock(ok)
  \/ \E ok \in BOOLEAN : SyGateBlock(ok)
  \/ SyWaitCancelled
  \/ SyConnectSkip
  \/ \E ok \in BOOLEAN : SyConnectBlock(ok)
  \/ SySqliteAhead
  \/ \E ok \in BOOLEAN : SyStoreBlockSummary(ok)
  \/ \E ok \in BOOLEAN : SyStoreStakeInfo(ok)
  \/ \E ok \in BOOLEAN : SyRequery(ok)

\* resyncDB is parked in a send on barLoad or updateExplorer
AtSend ==
  \/ syPc \in {"sendInit", "sendProgress", "sendExplorer"}
  \/ LoopEnded /\ rs.barLoad

\* C15: every blocking operation of resyncDB is cancellable: once the context
\* is cancelled resyncDB can go on by itself until it returns, also when nothing
\* ever receives from barLoad or updateExplorer; no channel send holds it.
C15_CancelledSyncNeverParked ==
  (ctxDone /\ syPc \notin {"idle", "done"}) => (ENABLED SyOwnStep /\ ~AtSend)

\* outside the channel sends the cancelled sync can always go on by itself
C15_OnlySendsPark ==
  (ctxDone /\ syPc \notin {"idle", "done"} /\ ~AtSend) => ENABLED SyOwnStep

\* resyncDB returned a nil error and was not cancelled
SyncedReturn == syPc = "done" /\ retErr = ErrNil /\ ~ctxDone

\* C16: when resyncDB returns a nil error without having been cancelled, the
\* block summary height, the stake info height and the stake DB height all
\* equal the returned height, which is the node's best height as last queried.
C16_SyncedReturnAllEqual ==
  SyncedReturn =>
    /\ summaryHeight = retHeight
    /\ stakeInfoHeight = retHeight
    /\ sdbHeight = retHeight
    /\ retHeight = rs.height

\* what the code's own checks give at such a return: the height last queried
\* is returned, the two SQLite heights agree and none of the three is below it
C16_SyncedReturnAtLeast ==
  SyncedReturn =>
    /\ retHeight = rs.height
    /\ summaryHeight = stakeInfoHeight
    /\ summaryHeight >= retHeight
    /\ sdbHeight >= retHeight

SyRunning == syPc \notin {"idle", "done"}

\* a block has been processed and the node's best height is read again
RequeryStep ==
  syPc \in {"requeryAhead", "requeryMid", "requeryEnd"} /\ syPc' = "loopTop"

\* C17: after every processed block resyncDB reads the node's best height again
\* and uses it as the end of the loop, so blocks arriving during the sync are
\* processed in the same run; once the node's best height stops increasing, a
\* run without error or cancellation returns, having processed every height
\* from its start height through the node's best height as last read.
C17_RequeriesAndFinishes ==
  /\ [][RequeryStep => (rs'.height = nodeHeight /\ rs'.i = rs.i + 1
                        /\ run'.processed = run.processed \cup {rs.i})]_vars
  /\ [](syPc = "loopTop" => run.processed = rs.startHeight..(rs.i - 1))
  /\ []((SyncedReturn /\ run.firstI # -1) =>
          (run.processed = rs.startHeight..rs.height /\ retHeight = rs.height))
  /\ (SyRunning ~> (syPc = "done"))

C17_Witness ==
  /\ SyncedReturn
  /\ run.processed = rs.startHeight..rs.height
  /\ Cardinality(run.processed) >= 2
  /\ rs.height = nodeHeight /\ retHeight = nodeHeight

\* StoreBlockSummary is about to be invoked for block i (line 320)
AtStoreBlockSummary ==
  /\ syPc = "store"
  /\ ~(rs.i <= rs.summaryHeight /\ rs.i <= rs.stakeInfoHeight)
  /\ rs.i > rs.summaryHeight

\* StoreStakeInfoExtended is about to be invoked for block i (line 355)
AtStoreStakeInfo == syPc = "stakeInfo"

\* C18: commits are strictly monotonic in height, within a run and across runs:
\* StoreBlockSummary and StoreStakeInfoExtended are invoked for the stored best
\* height + 1 and nothing else, so the stored heights grow by one with no gap
\* and a height SQLite already holds is never stored again; heights at or
\* below the stored height are only connected to the stake DB.
C18_CommitsConsecutive ==
  /\ [](AtStoreBlockSummary => rs.i = summaryHeight + 1)
  /\ [](AtStoreStakeInfo => (rs.i = stakeInfoHeight + 1 /\ rs.i = summaryHeight))
  /\ [][summaryHeight' # summaryHeight =>
          (AtStoreBlockSummary /\ summaryHeight' = summaryHeight + 1)]_vars
  /\ [][stakeInfoHeight' # stakeInfoHeight =>
          (AtStoreStakeInfo /\ stakeInfoHeight' = stakeInfoHeight + 1)]_vars
  /\ [](\A sr \in run.stores : sr[2] > run.entryH)
  /\ [](\A sr \in run.stores :
          sr[2] > run.entryH + 1 => <<sr[1], sr[2] - 1>> \in run.stores)

C18_Witness ==
  /\ syPc = "done"
  /\ run.entryH >= 0
  /\ StoredBoth(run.entryH + 1) /\ StoredBoth(run.entryH + 2)
  /\ \E c \in run.connects : c <= run.entryH

\* the SQLite best height: the highest block held in both tables
SqliteHeight ==
  IF stakeInfoHeight < summaryHeight THEN stakeInfoHeight ELSE summaryHeight

\* SQLite holds no complete block and the stake DB holds only the genesis block
EmptyAtGenesis == SqliteHeight = -1 /\ sdbHeight = 0

\* the start of a loop iteration (line 200, the loop condition holds)
IterationStart == syPc = "loopTop" /\ rs.i <= rs.height

\* between ConnectBlock(i) and the SQLite stores of block i
ConnectedNotStored ==
  /\ syPc \in {"sendProgress", "store", "stakeInfo"}
  /\ rs.connected
  /\ sdbHeight = rs.i

\* C19: after the startup rewind, at the start of every loop iteration the
\* stake DB height is at most the SQLite best height, except with SQLite empty
\* and the stake DB at genesis; while resyncDB runs its loop the stake DB is
\* above SQLite only between ConnectBlock(i) and the stores of block i.
C19_StakeDBNotAboveSqlite ==
  /\ IterationStart => (sdbHeight <= SqliteHeight \/ EmptyAtGenesis)
  /\ (syPc \in LoopPcs /\ sdbHeight > SqliteHeight) =>
       (ConnectedNotStored \/ EmptyAtGenesis)

\* RewindStakeDB saw the quit signal and returned above its target height
\* (lines 80-85); resyncDB goes on with a nil error
RewindCancelled == rw.stakeDBHeight > rw.toHeight

\* the iteration that only reads the quit signal and returns
CancelledIteration == syPc = "loopTop" /\ ctxDone /\ RewindCancelled

\* C19 as the code has it: the same, for every iteration but the one a
\* cancelled rewind leads to; that iteration returns at its check of the quit
\* signal, and the run has connected and stored nothing.
C19_UnlessRewindCancelled ==
  /\ (IterationStart /\ ~CancelledIteration) =>
       (sdbHeight <= SqliteHeight \/ EmptyAtGenesis)
  /\ (syPc \in LoopPcs /\ sdbHeight > SqliteHeight /\ ~CancelledIteration) =>
       (ConnectedNotStored \/ EmptyAtGenesis)
  /\ (syPc \in LoopPcs /\ RewindCancelled) =>
       (CancelledIteration /\ run.connects = {} /\ run.stores = {})

C19_Witness ==
  /\ ConnectedNotStored
  /\ sdbHeight > SqliteHeight
  /\ run.disconnects > 0
  /\ run.processed # {}

C19_WitnessGenesis == IterationStart /\ EmptyAtGenesis /\ ~ctxDone

\* block i has been obtained in the current iteration
BlockObtained ==
  syPc \in {"connect", "sendProgress", "store", "stakeInfo", "sendExplorer",
            "requeryAhead", "requeryMid", "requeryEnd"}

\* block i is obtained through the block gate
Coordinated == ~rs.master /\ rs.i >= rs.fetchToHeight

\* C20: in coordinated mode, for every height i >= fetchToHeight resyncDB waits
\* until a block hash is received on the wait channel or the context is
\* cancelled, obtains block i by exactly that hash and registers
\* WaitForHeight(i + 1) before block i is connected to the stake DB; heights
\* below fetchToHeight are fetched from the node without waiting; with
\* fetchToHeight below the stake DB height resyncDB returns an error and
\* processes no block.
C20_CoordinatedFetch ==
  /\ [](BlockObtained => rs.via = IF Coordinated THEN "gate" ELSE "node")
  /\ []((BlockObtained /\ rs.via = "gate") =>
          /\ rs.blockhash \in GateHashes(rs.i)
          /\ rs.fetched = rs.blockhash
          /\ waitChan = rs.i + 1)
  /\ []((BlockObtained /\ rs.via = "node") => rs.fetched = BlockHashAt(rs.i))
  /\ [](syPc = "wait" => (Coordinated /\ rs.blockhash = 0 /\ ~rs.connected))
  /\ [][(syPc = "wait" /\ syPc' # "wait") =>
          \/ syPc' = "gateBlock" /\ rs'.blockhash \in GateHashes(rs.i)
          \/ syPc' = "done" /\ ctxDone /\ retErr' = ErrNil]_vars
  /\ [][(syPc = "loopTop" /\ syPc' = "fetch") => ~Coordinated]_vars
  /\ [][(sdbHeight' > sdbHeight /\ Coordinated) => waitChan = rs.i + 1]_vars
  /\ [][(syPc = "start" /\ syPc' # "start" /\ ~rs.master
           /\ rs.fetchToHeight < rs.stakeDBHeight) =>
          (syPc' = "done" /\ retErr' = ErrFetchToHeight)]_vars
  /\ []((syPc = "done" /\ retErr = ErrFetchToHeight) =>
          (run.firstI = -1 /\ run.processed = {} /\ run.connects = {}
           /\ run.stores = {}))

C20_Witness ==
  /\ syPc = "store"
  /\ rs.via = "gate" /\ rs.connected
  /\ rs.blockhash = -BlockHashAt(rs.i)
  /\ rs.fetchToHeight = rs.i
  /\ run.processed = {rs.i - 1}

C20_WitnessError ==
  /\ syPc = "done" /\ retErr = ErrFetchToHeight
  /\ rs.master = FALSE /\ rs.fetchToHeight < rs.stakeDBHeight










(* =============== dcrpg: transactions table (txstmts.go) ================ *)
ErrUniqueViolation == "duplicate key value violates unique constraint"
ErrNoConstraint == "no unique constraint matching the ON CONFLICT specification"
ErrDB == "database error"
ErrIndexExists == "relation already exists"
ErrNoIndex == "index does not exist"
ErrCancelled == "cancelled"

Blocks == {"b1", "b2"}

\* the transactions of a block; t1 is also mined in the side chain block b2
TxnsOf(b) == IF b = "b1" THEN <<"t1", "t2">> ELSE <<"t1">>

\* the dbtypes.Tx values passed for block b: the block flags and the remaining
\* columns (vin_db_ids, vout_db_ids, ...) taken together as cols
TxBatch(b, valid, main, cols) ==
  [k \in 1..Len(TxnsOf(b)) |->
     [tx_hash |-> TxnsOf(b)[k], block_hash |-> b,
      is_valid |-> valid, is_mainchain |-> main, cols |-> cols]]

SameKey(r1, r2) == r1.tx_hash = r2.tx_hash /\ r1.block_hash = r2.block_hash

Conflicting(T, row) == {r \in T : SameKey(r, row)}

MinId(R) == CHOOSE i \in {r.id : r \in R} : \A r \in R : i <= r.id

\* MakeTxInsertStatement
MakeTxInsertStatement(checked, updateOnConflict) ==
  IF ~checked THEN "InsertTxRow"
  ELSE IF updateOnConflict THEN "UpsertTxRow"
  ELSE "InsertTxRowOnConflictDoNothing"

NewRow(row, id) ==
  [id |-> id, tx_hash |-> row.tx_hash, block_hash |-> row.block_hash,
   is_valid |-> row.is_valid, is_mainchain |-> row.is_mainchain, cols |-> row.cols]

DoUpdateAllColumns(old, row) == NewRow(row, old.id)
\* ON CONFLICT (tx_hash, block_hash) DO UPDATE SET is_valid = $20, is_mainchain = $21
DoUpdate(old, row) ==
  [old EXCEPT !.is_valid = row.is_valid, !.is_mainchain = row.is_mainchain]

DoNothingUpdatesFlags(old, row) ==
  [old EXCEPT !.is_valid = row.is_valid, !.is_mainchain = row.is_mainchain]
\* ON CONFLICT (tx_hash, block_hash) DO NOTHING
DoNothing(old, row) == old

\* one execution of a transactions insert statement; the id sequence advances
\* whenever a row is proposed for insertion, also when the row then conflicts
ExecTxInsert(T, q, uix, row, stmt) ==
  LET c == Conflicting(T, row)
  IN  IF stmt = "InsertTxRow"
        THEN IF uix /\ c # {}
               THEN [table |-> T, seq |-> q + 1, id |-> 0, err |-> ErrUniqueViolation]
               ELSE [table |-> T \cup {NewRow(row, q + 1)}, seq |-> q + 1,
                     id |-> q + 1, err |-> ErrNil]
      ELSE IF ~uix
        THEN [table |-> T, seq |-> q, id |-> 0, err |-> ErrNoConstraint]
      ELSE IF c = {}
        THEN [table |-> T \cup {NewRow(row, q + 1)}, seq |-> q + 1,
              id |-> q + 1, err |-> ErrNil]
      ELSE LET old == CHOOSE r \in c : TRUE
               new == IF stmt = "UpsertTxRow" THEN DoUpdate(old, row)
                                              ELSE DoNothing(old, row)
           IN  [table |-> (T \ {old}) \cup {new}, seq |-> q + 1,
                id |-> old.id, err |-> ErrNil]

\* the loop of InsertTxns over dbTxns from element k on, inside the DB transaction
RECURSIVE InsertLoop(_, _, _, _, _, _, _)
InsertLoop(T, q, uix, batch, k, stmt, ids) ==
  IF k > Len(batch)
    THEN [table |-> T, seq |-> q, ids |-> ids, err |-> ErrNil]
    ELSE LET r == ExecTxInsert(T, q, uix, batch[k], stmt)
         IN  IF r.err # ErrNil
               THEN [table |-> T, seq |-> r.seq, ids |-> ids, err |-> r.err]
               ELSE InsertLoop(r.table, r.seq, uix, batch, k + 1, stmt,
                               Append(ids, r.id))

\* InsertTxns: Begin, Prepare, the loop, Commit; fail names a failure of the
\* database connection before the first row ("begin": Begin, Prepare or the
\* first QueryRow) or at Commit.  A rollback restores the table but not the
\* sequence.
InsertTxnsResult(T, q, uix, batch, checked, upd, fail) ==
  LET stmt == MakeTxInsertStatement(checked, upd)
      r == InsertLoop(T, q, uix, batch, 1, stmt, <<>>)
  IN  IF fail = "begin"
        THEN [table |-> T, seq |-> q, ids |-> <<>>, err |-> ErrDB]
      ELSE IF r.err # ErrNil
        THEN [table |-> T, seq |-> r.seq, ids |-> <<>>, err |-> r.err]
      ELSE IF fail = "commit"
        THEN [table |-> T, seq |-> r.seq, ids |-> r.ids, err |-> ErrDB]
      ELSE r

Failures == {"none", "begin", "commit"}

\* (checked, updateOnConflict); updateOnConflict is ignored when checked is false
InsertModes == {<<FALSE, FALSE>>, <<TRUE, FALSE>>, <<TRUE, TRUE>>}

DBUnchangedOthers == UNCHANGED <<caVars, syncVars, moreVars>>

SameKeys(b1, b2) ==
  /\ Len(b1) = Len(b2)
  /\ \A k \in 1..Len(b1) : SameKey(b1[k], b2[k])

\* the call is a repetition: the call before it was a successful InsertTxns of
\* rows with the same keys
Repeats(batch) ==
  /\ last.op = "InsertTxns" /\ last.err = ErrNil
  /\ Len(batch) >= 1 /\ SameKeys(last.batch, batch)

\* what is remembered of a call and its results (n counts the InsertTxns calls)
Record(op, batch, checked, upd, ids, err, rows) ==
  [n |-> IF op = "InsertTxns" THEN last.n + 1 ELSE last.n,
   op |-> op, batch |-> batch, checked |-> checked, upd |-> upd,
   ids |-> ids, err |-> err, rows |-> rows, seq0 |-> txSeq,
   prevStmt |-> IF Repeats(batch)
                  THEN MakeTxInsertStatement(last.checked, last.upd) ELSE "",
   prevMain |-> IF Repeats(batch) THEN last.batch[1].is_mainchain ELSE FALSE]

\* InsertTxns(db, dbTxns, checked, updateExistingRecords)
InsertTxns(b, valid, main, cols, checked, upd, fail) ==
  /\ last.n < MaxInserts
  /\ LET batch == TxBatch(b, valid, main, cols)
         r == InsertTxnsResult(txTable, txSeq, uixTxHashes, batch, checked, upd, fail)
     IN  /\ txTable' = r.table
         /\ txSeq' = r.seq
         /\ last' = Record("InsertTxns", batch, checked, upd, r.ids, r.err, 0)
  /\ UNCHANGED <<uixTxHashes, tbl, st>>
  /\ DBUnchangedOthers

KeepHighestId(T) == {r \in T : \E r2 \in T : SameKey(r, r2) /\ r2.id > r.id}
\* DeleteTxDuplicateRows: ROW_NUMBER() OVER (PARTITION BY tx_hash, block_hash
\* ORDER BY id) > 1
DuplicateRows(T) == {r \in T : \E r2 \in T : SameKey(r, r2) /\ r2.id < r.id}

\* DeleteDuplicateTxns: nothing to do when the unique index exists
DeleteDuplicateTxns(ok) ==
  /\ IF ~ok
       THEN /\ last' = Record("DeleteDuplicateTxns", <<>>, FALSE, FALSE, <<>>, ErrDB, 0)
            /\ UNCHANGED txTable
     ELSE IF uixTxHashes
       THEN /\ last' = Record("DeleteDuplicateTxns", <<>>, FALSE, FALSE, <<>>, ErrNil, 0)
            /\ UNCHANGED txTable
     ELSE /\ txTable' = txTable \ DuplicateRows(txTable)
          /\ last' = Record("DeleteDuplicateTxns", <<>>, FALSE, FALSE, <<>>, ErrNil,
                            Cardinality(DuplicateRows(txTable)))
  /\ UNCHANGED <<txSeq, uixTxHashes, tbl, st>>
  /\ DBUnchangedOthers

\* IndexTransactionTableOnHashes: CREATE UNIQUE INDEX uix_tx_hashes
IndexTransactionTableOnHashes ==
  /\ IF uixTxHashes
       THEN /\ last' = Record("IndexTransactionTableOnHashes", <<>>, FALSE, FALSE, <<>>,
                              ErrIndexExists, 0)
            /\ UNCHANGED uixTxHashes
     ELSE IF DuplicateRows(txTable) # {}
       THEN /\ last' = Record("IndexTransactionTableOnHashes", <<>>, FALSE, FALSE, <<>>,
                              ErrUniqueViolation, 0)
            /\ UNCHANGED uixTxHashes
     ELSE /\ uixTxHashes' = TRUE
          /\ last' = Record("IndexTransactionTableOnHashes", <<>>, FALSE, FALSE, <<>>,
                            ErrNil, 0)
  /\ UNCHANGED <<txTable, txSeq, tbl, st>>
  /\ DBUnchangedOthers

\* DeindexTransactionTableOnHashes: DROP INDEX uix_tx_hashes
DeindexTransactionTableOnHashes ==
  /\ IF uixTxHashes
       THEN /\ uixTxHashes' = FALSE
            /\ last' = Record("DeindexTransactionTableOnHashes", <<>>, FALSE, FALSE,
                              <<>>, ErrNil, 0)
       ELSE /\ last' = Record("DeindexTransactionTableOnHashes", <<>>, FALSE, FALSE,
                              <<>>, ErrNoIndex, 0)
            /\ UNCHANGED uixTxHashes
  /\ UNCHANGED <<txTable, txSeq, tbl, st>>
  /\ DBUnchangedOthers

\* a created transactions table, before or after the unique index was built
TxInit ==
  /\ txTable = {}
  /\ txSeq = 0
  /\ uixTxHashes \in BOOLEAN
  /\ last = NoCall
  /\ tbl = [t \in OtherTables |-> {}]
  /\ st = NoStore
  /\ CAIdle
  /\ SyIdle
  /\ MoreIdle

TxNext ==
  \/ \E b \in Blocks, valid, main \in BOOLEAN, cols \in 0..1, m \in InsertModes,
        fail \in Failures :
       InsertTxns(b, valid, main, cols, m[1], m[2], fail)
  \/ \E ok \in BOOLEAN : DeleteDuplicateTxns(ok)
  \/ IndexTransactionTableOnHashes
  \/ DeindexTransactionTableOnHashes

SpecTx == TxInit /\ [][TxNext]_vars


(* ==================== storing the rows of one block ==================== *)
\* The per-table insert functions each open their own database transaction
\* (db.Begin) and commit it before they return (dbtx.Commit); the steps of one
\* block run in the dependency order Vouts, Vins, Transactions, Address rows,
\* Tickets, Votes.
StepAfter(pc) ==
  IF pc = "vouts" THEN "vins"
  ELSE IF pc = "vins" THEN "txns"
  ELSE IF pc = "txns" THEN "addresses"
  ELSE IF pc = "addresses" THEN "tickets"
  ELSE IF pc = "tickets" THEN "votes"
  ELSE "done"

\* the tables that hold rows of block b
TablesWith(b) ==
  {t \in OtherTables : b \in tbl[t]}
    \cup (IF \E r \in txTable : r.block_hash = b THEN {"transactions"} ELSE {})

StFailures == {"none", "begin", "exec", "commit"}

\* the store of block b begins; fresh: no table holds a row of b yet
StoreBlock(b, checked, upd) ==
  /\ st.pc \in {"idle", "done"}
  /\ st.n < MaxStores
  /\ st' = [pc |-> "vouts", block |-> b, checked |-> checked, upd |-> upd,
            err |-> ErrNil, fresh |-> TablesWith(b) = {}, n |-> st.n + 1]
  /\ UNCHANGED <<txTable, txSeq, uixTxHashes, last, tbl>>
  /\ DBUnchangedOthers

\* Begin, Prepare, the QueryRow loop and Commit of one insert function on table
\* t: every failure rolls the function's own transaction back, and a success
\* commits the rows of the block before the function returns
InsertRows(t, fail) ==
  IF fail = "none"
    THEN [table |-> tbl[t] \cup {st.block}, err |-> ErrNil]
    ELSE [table |-> tbl[t], err |-> ErrDB]

\* the store goes on to the next step, or returns the error of the failed step
StepDone(err) ==
  [st EXCEPT !.err = err, !.pc = IF err = ErrNil THEN StepAfter(st.pc) ELSE "done"]

\* InsertVouts for the outputs of the block
InsertVouts(fail) ==
  /\ st.pc = "vouts"
  /\ LET r == InsertRows("vouts", fail)
     IN  /\ tbl' = [tbl EXCEPT !["vouts"] = r.table]
         /\ st' = StepDone(r.err)
  /\ UNCHANGED <<txTable, txSeq, uixTxHashes, last>>
  /\ DBUnchangedOthers

\* InsertVins for the inputs of the block
InsertVins(fail) ==
  /\ st.pc = "vins"
  /\ LET r == InsertRows("vins", fail)
     IN  /\ tbl' = [tbl EXCEPT !["vins"] = r.table]
         /\ st' = StepDone(r.err)
  /\ UNCHANGED <<txTable, txSeq, uixTxHashes, last>>
  /\ DBUnchangedOthers

\* InsertTxns for the transactions of the block
StInsertTxns(fail) ==
  /\ st.pc = "txns"
  /\ LET batch == TxBatch(st.block, TRUE, TRUE, 0)
         r == InsertTxnsResult(txTable, txSeq, uixTxHashes, batch,
                               st.checked, st.upd, fail)
     IN  /\ txTable' = r.table
         /\ txSeq' = r.seq
         /\ st' = StepDone(r.err)
  /\ UNCHANGED <<uixTxHashes, last, tbl>>
  /\ DBUnchangedOthers

\* InsertAddressRows for the address rows of the block
InsertAddressRows(fail) ==
  /\ st.pc = "addresses"
  /\ LET r == InsertRows("addresses", fail)
     IN  /\ tbl' = [tbl EXCEPT !["addresses"] = r.table]
         /\ st' = StepDone(r.err)
  /\ UNCHANGED <<txTable, txSeq, uixTxHashes, last>>
  /\ DBUnchangedOthers

\* InsertTickets for the ticket purchases of the block
InsertTickets(fail) ==
  /\ st.pc = "tickets"
  /\ LET r == InsertRows("tickets", fail)
     IN  /\ tbl' = [tbl EXCEPT !["tickets"] = r.table]
         /\ st' = StepDone(r.err)
  /\ UNCHANGED <<txTable, txSeq, uixTxHashes, last>>
  /\ DBUnchangedOthers

\* InsertVotes for the votes of the block
InsertVotes(fail) ==
  /\ st.pc = "votes"
  /\ LET r == InsertRows("votes", fail)
     IN  /\ tbl' = [tbl EXCEPT !["votes"] = r.table]
         /\ st' = StepDone(r.err)
  /\ UNCHANGED <<txTable, txSeq, uixTxHashes, last>>
  /\ DBUnchangedOthers

\* the sync is cancelled between two steps of the block
StCancel ==
  /\ st.pc \notin {"idle", "done"}
  /\ st' = [st EXCEPT !.pc = "done", !.err = ErrCancelled]
  /\ UNCHANGED <<txTable, txSeq, uixTxHashes, last, tbl>>
  /\ DBUnchangedOthers

StInit ==
  /\ txTable = {}
  /\ txSeq = 0
  /\ uixTxHashes \in BOOLEAN
  /\ last = NoCall
  /\ tbl = [t \in OtherTables |-> {}]
  /\ st = NoStore
  /\ CAIdle
  /\ SyIdle
  /\ MoreIdle

StNext ==
  \/ \E b \in Blocks, m \in InsertModes : StoreBlock(b, m[1], m[2])
  \/ \E fail \in StFailures : InsertVouts(fail)
  \/ \E fail \in StFailures : InsertVins(fail)
  \/ \E fail \in Failures : StInsertTxns(fail)
  \/ \E fail \in StFailures : InsertAddressRows(fail)
  \/ \E fail \in StFailures : InsertTickets(fail)
  \/ \E fail \in StFailures : InsertVotes(fail)
  \/ StCancel

SpecStore == StInit /\ [][StNext]_vars

(* ------------------ properties of storing one block -------------------- *)
\* C1: per-block writes are all-or-nothing: when an insert step for block H
\* fails, or the sync is cancelled part-way through block H, no row written for
\* H by an earlier step remains committed in any table.
C1_AllOrNothing ==
  (st.pc = "done" /\ st.err # ErrNil /\ st.fresh) => TablesWith(st.block) = {}

\* each insert function by itself is atomic: a failed step leaves its own table
\* without rows of the block
C1_FailedStepWritesNothing ==
  [][\A t \in OtherTables :
       (st.pc = t /\ st'.pc = "done" /\ st'.err # ErrNil /\ st.fresh)
         => st.block \notin tbl'[t]]_vars

(* ---------------- properties of the transactions table ----------------- *)
InsertOK(c, stmt) ==
  /\ c.op = "InsertTxns" /\ c.err = ErrNil
  /\ MakeTxInsertStatement(c.checked, c.upd) = stmt

\* the step is an InsertTxns call that follows a successful InsertTxns call
\* for rows with the same keys
RepeatedInsert ==
  /\ last'.n = last.n + 1
  /\ last.op = "InsertTxns" /\ last.err = ErrNil
  /\ last'.op = "InsertTxns" /\ last'.err = ErrNil
  /\ SameKeys(last.batch, last'.batch)

C2_Step ==
  (/\ RepeatedInsert
   /\ InsertOK(last, "InsertTxRowOnConflictDoNothing")
   /\ InsertOK(last', "InsertTxRowOnConflictDoNothing")) =>
     /\ last'.ids = last.ids
     /\ Len(last'.ids) = Len(last'.batch)
     /\ Cardinality(txTable') = Cardinality(txTable)
     /\ txTable' = txTable
     /\ \A k \in 1..Len(last'.batch) :
          \E r \in txTable' : r.id = last'.ids[k] /\ SameKey(r, last'.batch[k])

\* C2: inserting the same transaction rows twice with checked=true,
\* updateOnConflict=false returns the same row ids both times, leaves the number
\* of rows unchanged and modifies no column of the existing rows, also when the
\* second insert carries other is_valid / is_mainchain values.
C2_InsertTwiceDoNothing == [][C2_Step]_vars

C2_Witness ==
  /\ InsertOK(last, "InsertTxRowOnConflictDoNothing")
  /\ last.prevStmt = "InsertTxRowOnConflictDoNothing"
  /\ Len(last.batch) = 2
  /\ \A k \in 1..Len(last.batch) :
       \E r \in txTable :
         /\ r.id = last.ids[k]
         /\ r.is_valid # last.batch[k].is_valid
         /\ r.is_mainchain # last.batch[k].is_mainchain

C3_Step ==
  (RepeatedInsert /\ InsertOK(last', "UpsertTxRow")) =>
     /\ Len(last'.ids) = Len(last'.batch)
     /\ \A k \in 1..Len(last'.batch) :
          LET rows == Conflicting(txTable', last'.batch[k])
          IN  /\ Cardinality(rows) = 1
              /\ \A r \in rows :
                   /\ r.id = last'.ids[k]
                   /\ last'.ids[k] = last.ids[k]
                   /\ r.is_mainchain = last'.batch[k].is_mainchain
                   /\ r.is_valid = last'.batch[k].is_valid
                   /\ \E o \in txTable : o.id = r.id /\ SameKey(o, r) /\ o.cols = r.cols
                   /\ last.ids[k] > last.seq0 => r.cols = last.batch[k].cols
     /\ {r \in txTable' : \A k \in 1..Len(last'.batch) : ~SameKey(r, last'.batch[k])}
          = {r \in txTable : \A k \in 1..Len(last'.batch) : ~SameKey(r, last'.batch[k])}

\* C3: inserting a transaction with is_mainchain=false and then the same
\* (tx_hash, block_hash) with is_mainchain=true using checked=true,
\* updateOnConflict=true leaves exactly one row for the key, with the original
\* row id returned by both inserts, is_mainchain=true and is_valid as in the
\* second insert; every other column keeps the value of the first insert.
C3_UpsertUpdatesFlagsOnly == [][C3_Step]_vars

C3_Witness ==
  /\ InsertOK(last, "UpsertTxRow")
  /\ last.prevStmt = "UpsertTxRow" /\ ~last.prevMain
  /\ \A k \in 1..Len(last.batch) :
       /\ last.batch[k].is_mainchain
       /\ \E r \in txTable :
            /\ r.id = last.ids[k] /\ r.is_mainchain
            /\ r.cols # last.batch[k].cols

AtMostOneRowPerKey(T) == \A r1, r2 \in T : SameKey(r1, r2) => r1 = r2

C4_Step ==
  (\E ok \in BOOLEAN : DeleteDuplicateTxns(ok)) =>
     /\ txTable' \subseteq txTable
     /\ (last'.err = ErrNil /\ ~uixTxHashes) =>
          /\ \A r \in txTable :
               r \in txTable' <=> r.id = MinId(Conflicting(txTable, r))
          /\ AtMostOneRowPerKey(txTable')
          /\ last'.rows = Cardinality(txTable \ txTable')
     /\ uixTxHashes => (txTable' = txTable /\ last'.rows = 0)
     /\ last'.err # ErrNil => (txTable' = txTable /\ last'.rows = 0)

\* C4: after unchecked inserts created several rows with the same
\* (tx_hash, block_hash), DeleteDuplicateTxns removes every row of a key group
\* except the one with the lowest id and no row of a group of size one, so at
\* most one row per key remains; when the unique index uix_tx_hashes exists it
\* deletes nothing and returns 0, and then the table has no duplicates.
C4_DeleteDuplicates ==
  /\ [][C4_Step]_vars
  /\ [](uixTxHashes => AtMostOneRowPerKey(txTable))

C4_Witness ==
  /\ last.op = "DeleteDuplicateTxns" /\ last.err = ErrNil
  /\ last.rows >= 2
  /\ txTable # {} /\ AtMostOneRowPerKey(txTable)


(* ========================== dcrpg.InsertVotes ========================== *)
\* One call of InsertVotes on the stake transactions of one block.  A ticket is
\* named by a number; a vote transaction is named by the ticket it spends (the
\* previous outpoint hash of its input #1), since a ticket is spent once.
ErrTxidMismatch == "txid of dbtypes.Tx does not match that of msgTx"
ErrVotesBegin == "unable to begin database transaction"
ErrVotesLoop == "vote insert failed"
ErrMissInsert == "miss insert failed"
ErrVotesCommit == "commit failed"

\* the tickets called to vote on the block, and one ticket that was not called
CalledTickets == 1..TicketsPerBlock
VoteTickets == 1..(TicketsPerBlock + 1)

\* msgBlock.Validators: empty before stake validation, else the called tickets
ValidatorLists == {<<>>, [k \in 1..TicketsPerBlock |-> k]}

TxTypeSSGen == "SSGen"
StakeTxTypes == {TxTypeSSGen, "SStx"}

\* dbTxns: the types of the block's stake transactions, in block order
StakeTxnLists == UNION {[1..n -> StakeTxTypes] : n \in 0..MaxStakeTxns}

\* lines 300-311: choose only SSGen txns
VoteTxs(dbTxns) == SelectSeq(dbTxns, LAMBDA ty : ty = TxTypeSSGen)

\* the agendas of the block's vote version (txhelpers.SSGenVoteChoices gives one
\* choice for each); agendaA has milestones, agendaB has none
AgendaSets == {{}, {"agendaA", "agendaB"}}

\* VotingMilestones: agenda id -> heights of its milestones
VotingMilestones ==
  [a \in {"agendaA"} |-> [LockedIn |-> 1, Activated |-> 2, HardForked |-> 3]]

\* heights of the block: no milestone (0) and each milestone of agendaA
VoteBlockHeights == 0..3

\* lines 432-437: progress, ok := VotingMilestones[val.ID]; flag = (height == milestone)
Milestone(a, field, height) ==
  /\ a \in DOMAIN VotingMilestones
  /\ VotingMilestones[a][field] = height

\* the row agendaStmt.QueryRow inserts for one choice of vote tx, lines 439-440
AgendaRow(a, tx, height) ==
  [agenda |-> a, tx |-> tx, height |-> height,
   lockedIn |-> Milestone(a, "LockedIn", height),
   activated |-> Milestone(a, "Activated", height),
   hardForked |-> Milestone(a, "HardForked", height)]

\* the index of the first element of misses equal to h, 0 if there is none
FirstIndex(misses, h) ==
  IF \E im \in 1..Len(misses) : misses[im] = h
    THEN CHOOSE im \in 1..Len(misses) :
           /\ misses[im] = h
           /\ \A j \in 1..(im - 1) : misses[j] # h
    ELSE 0

\* lines 383-390: remove the spent ticket from the missed list: the last element
\* takes its place and the list is cut by one
RemoveMiss(misses, h) ==
  LET im == FirstIndex(misses, h)
  IN  IF im = 0
        THEN misses
        ELSE SubSeq([misses EXCEPT ![im] = misses[Len(misses)]],
                    1, Len(misses) - 1)

\* lines 407-410: the agendas table is written unless checked && !updateExistingRecords
WritesAgendas(checked, update) == ~(checked /\ ~update)

\* internal.MakeVoteInsertStatement(checked, updateExistingRecords): in each of
\* the three insert modes the statement returns a row id: of the new row, of the
\* existing row (on conflict do nothing) or of the updated row (upsert)
VoteInsertReturnsId(checked, update) == TRUE

MissAccountingUnchecked(validators, ids, misses) == FALSE
\* line 453: len(msgBlock.Validators) > 0 && len(ids)+len(misses) != 5
MissAccountingOff(validators, ids, misses) ==
  Len(validators) > 0 /\ Len(ids) + Len(misses) # votesPlusMisses

IVFrame ==
  UNCHANGED <<caVars, syncVars, dbVars, ad, bt, rg, ut, ch, qy, sc>>

\* lines 294-315: the call, the choice of the vote transactions and the early
\* returns; the call is made on tables without rows of this block
IVCall(checked, update, validators, height, agendas, dbTxns, txidsOK) ==
  /\ iv.pc = "idle"
  /\ LET voteTxs == VoteTxs(dbTxns)
         call == [NoVotes EXCEPT !.checked = checked, !.update = update,
                    !.validators = validators, !.height = height,
                    !.agendas = agendas, !.nVotes = Len(voteTxs)]
     IN  IF voteTxs # <<>> /\ ~txidsOK
           THEN iv' = [call EXCEPT !.pc = "done", !.err = ErrTxidMismatch]
           ELSE IF Len(voteTxs) = 0
           THEN iv' = [call EXCEPT !.pc = "done"]
           ELSE iv' = [call EXCEPT !.pc = "begin"]
  /\ IVFrame

\* lines 317-348: db.Begin and the two Prepare calls; lines 353-358: the lists
IVBegin(ok) ==
  /\ iv.pc = "begin"
  /\ IF ok
       THEN iv' = [iv EXCEPT !.pc = "loop", !.misses = iv.validators]
       ELSE iv' = [iv EXCEPT !.pc = "done", !.err = ErrVotesBegin]
  /\ IVFrame

\* lines 359-446: one vote transaction, spending ticket t: the miss list, the
\* votes row and the agendas rows; any error rolls the transaction back
IVVote(t, ok) ==
  /\ iv.pc = "loop"
  /\ Cardinality(iv.spent) < iv.nVotes
  /\ t \notin iv.spent
  /\ IF ok
       THEN LET id == VoteInsertReturnsId(iv.checked, iv.update)
            IN  iv' = [iv EXCEPT
                     !.spent = @ \cup {t},
                     !.misses = RemoveMiss(@, t),
                     !.ids = IF id THEN Append(@, t) ELSE @,
                     !.pending.votes = @ \cup {t},
                     !.pending.agendas =
                        IF id /\ WritesAgendas(iv.checked, iv.update)
                          THEN @ \cup {AgendaRow(a, t, iv.height) : a \in iv.agendas}
                          ELSE @]
       ELSE iv' = [iv EXCEPT !.pc = "done", !.err = ErrVotesLoop,
                             !.pending = NoRows]
  /\ IVFrame

\* lines 452-458: miss accounting does not add up: Rollback and panic
IVPanic ==
  /\ iv.pc = "loop"
  /\ Cardinality(iv.spent) = iv.nVotes
  /\ MissAccountingOff(iv.validators, iv.ids, iv.misses)
  /\ iv' = [iv EXCEPT !.pc = "done", !.panicked = TRUE, !.pending = NoRows]
  /\ IVFrame

\* lines 460-492: store the missed tickets
IVMisses(ok) ==
  /\ iv.pc = "loop"
  /\ Cardinality(iv.spent) = iv.nVotes
  /\ ~MissAccountingOff(iv.validators, iv.ids, iv.misses)
  /\ IF Len(iv.misses) > 0
       THEN IF ok
              THEN iv' = [iv EXCEPT !.pc = "commit",
                            !.pending.misses = {iv.misses[k] : k \in 1..Len(iv.misses)}]
              ELSE iv' = [iv EXCEPT !.pc = "done", !.err = ErrMissInsert,
                                    !.pending = NoRows]
       ELSE iv' = [iv EXCEPT !.pc = "commit"]
  /\ IVFrame

\* line 494: dbtx.Commit()
IVCommit(ok) ==
  /\ iv.pc = "commit"
  /\ IF ok
       THEN iv' = [iv EXCEPT !.pc = "done", !.rows = iv.pending, !.pending = NoRows]
       ELSE iv' = [iv EXCEPT !.pc = "done", !.err = ErrVotesCommit,
                             !.pending = NoRows]
  /\ IVFrame

IVInit ==
  /\ MoreIdle
  /\ CAIdle
  /\ SyIdle
  /\ DBIdle

IVNext ==
  \/ \E m \in InsertModes, validators \in ValidatorLists,
        height \in VoteBlockHeights, agendas \in AgendaSets,
        dbTxns \in StakeTxnLists, txidsOK \in BOOLEAN :
       IVCall(m[1], m[2], validators, height, agendas, dbTxns, txidsOK)
  \/ \E ok \in BOOLEAN : IVBegin(ok)
  \/ \E t \in VoteTickets, ok \in BOOLEAN : IVVote(t, ok)
  \/ IVPanic
  \/ \E ok \in BOOLEAN : IVMisses(ok)
  \/ \E ok \in BOOLEAN : IVCommit(ok)

SpecVotes == IVInit /\ [][IVNext]_vars

(* ---------------------- properties of InsertVotes ---------------------- *)
\* InsertVotes returned after its Commit succeeded
VotesCommitted ==
  iv.pc = "done" /\ iv.err = ErrNil /\ ~iv.panicked /\ iv.nVotes > 0

\* C21: after InsertVotes commits for a block with a non-empty Validators list,
\* the vote rows and the miss rows recorded for the block add up to
\* TicketsPerBlock, in every insert mode; when the vote ids and the misses do
\* not add up to TicketsPerBlock, nothing is committed for the block.
C21_VotesPlusMisses ==
  /\ (VotesCommitted /\ Len(iv.validators) > 0) =>
        /\ Cardinality(iv.rows.votes) + Cardinality(iv.rows.misses) = TicketsPerBlock
        /\ iv.rows.votes \cap iv.rows.misses = {}
  /\ (iv.pc = "done" /\ Len(iv.validators) > 0
        /\ Len(iv.ids) + Len(iv.misses) # TicketsPerBlock) => iv.rows = NoRows

C21_Witness ==
  /\ VotesCommitted /\ Len(iv.validators) > 0
  /\ Cardinality(iv.rows.votes) = 3 /\ Cardinality(iv.rows.misses) = 2

C21_WitnessMismatch ==
  iv.pc = "done" /\ iv.panicked /\ (TicketsPerBlock + 1) \in iv.spent


\* InsertVotes returned a nil error (and did not panic)
VotesReturnedNil == iv.pc = "done" /\ iv.err = ErrNil /\ ~iv.panicked

Called == {iv.validators[k] : k \in 1..Len(iv.validators)}

\* C22: the misses InsertVotes records for a block are exactly the called
\* validators that no vote of the block spends, for every block with a
\* non-empty Validators list, a block without vote transactions included.
C22_MissesAreSetDifference ==
  (VotesReturnedNil /\ Len(iv.validators) > 0) =>
     iv.rows.misses = Called \ iv.spent

\* the same for the blocks that have a vote transaction
C22_WhenVotesPresent ==
  (VotesCommitted /\ Len(iv.validators) > 0) =>
     /\ iv.rows.misses = Called \ iv.spent
     /\ iv.rows.votes = iv.spent


\* the flag of milestone field of agenda a at a block height, from the table
AtMilestone(a, field, height) ==
  \E known \in DOMAIN VotingMilestones :
     known = a /\ VotingMilestones[known][field] = height

\* exactly one agendas row for vote tx and agenda a, with the flags of the height
OneAgendaRow(T, tx, a, height) ==
  /\ Cardinality({r \in T : r.tx = tx /\ r.agenda = a}) = 1
  /\ \A r \in T :
       (r.tx = tx /\ r.agenda = a) =>
          /\ r.lockedIn = AtMilestone(a, "LockedIn", height)
          /\ r.activated = AtMilestone(a, "Activated", height)
          /\ r.hardForked = AtMilestone(a, "HardForked", height)

AgendaRowsComplete ==
  /\ \A tx \in iv.rows.votes, a \in iv.agendas :
       OneAgendaRow(iv.rows.agendas, tx, a, iv.height)
  /\ \A r \in iv.rows.agendas : r.tx \in iv.rows.votes /\ r.agenda \in iv.agendas

\* C23: for every vote transaction InsertVotes handles, one agendas row is
\* inserted per agenda choice of the vote, in every insert mode, and its
\* locked_in / activated / hard_forked flag is true exactly when the block
\* height is that milestone's height of the agenda in VotingMilestones (all
\* three false for an agenda without milestones).
C23_AgendaRowPerChoice == VotesCommitted => AgendaRowsComplete

\* the same outside the mode checked && !updateExistingRecords
C23_UnlessCheckedNoUpdate ==
  (VotesCommitted /\ ~(iv.checked /\ ~iv.update)) => AgendaRowsComplete

\* in the mode checked && !updateExistingRecords no agendas row is written
C23_CheckedNoUpdateWritesNone ==
  (iv.checked /\ ~iv.update) => (iv.rows.agendas = {} /\ iv.pending.agendas = {})


(* ============ dcrpg: funding and spending rows of the addresses table ============ *)

\* number of calls on the addresses table in one run
MaxAddrOps == 3

\* rpcutils.zeroHashStringBytes: the previous outpoint hash of a coinbase input
zeroHashStringBytes == "0000"

ErrAddrBegin == "unable to begin database transaction"
ErrAddrInsert == "InsertAddressRow"
ErrAddrUpdate == "SetAddressMatchingTxHashForOutpoint"
ErrAddrCommit == "commit"
ErrVinQuery == "SelectVinVoutPairByID"
ErrVoutInsert == "InsertVouts"

\* the outputs of the funding transaction f1
Outpoints == {[hash |-> "f1", index |-> 0], [hash |-> "f1", index |-> 1]}

\* vout.ScriptPubKeyData.Addresses: output 0 pays one address, output 1 is a
\* bare multisig output paying two
OutAddresses(o) == IF o.index = 0 THEN <<"a">> ELSE <<"a", "b">>

\* row id of the output in the vouts table
VoutDbID(o) == o.index + 1

\* vin row ids passed to the calls; 5 has no row in the vins table
VinDbIDs == 1..5

\* the vins table: s1 spends both outputs of f1, s2 (a side-chain transaction)
\* spends output 1 again, cb is a coinbase
VinsTable ==
  [v \in 1..4 |->
     CASE v = 1 -> [tx |-> "s1", index |-> 0, prevHash |-> "f1", prevIndex |-> 0]
       [] v = 2 -> [tx |-> "s1", index |-> 1, prevHash |-> "f1", prevIndex |-> 1]
       [] v = 3 -> [tx |-> "s2", index |-> 0, prevHash |-> "f1", prevIndex |-> 1]
       [] OTHER -> [tx |-> "cb", index |-> 0, prevHash |-> zeroHashStringBytes,
                    prevIndex |-> 0]]

\* the inputs that spend an output
SpendingVins == {v \in DOMAIN VinsTable : VinsTable[v].prevHash # zeroHashStringBytes}

PrevOut(v) == [hash |-> VinsTable[v].prevHash, index |-> VinsTable[v].prevIndex]

\* argument lists of SetSpendingForVinDbIDs
VinIDLists == {<<4>>, <<4, 1>>, <<1, 2>>, <<1, 5>>}

\* internal.MakeAddressRowInsertStatement(checked, updateExisting) run on the
\* rows of the transaction: a new row when unchecked or when no row has the
\* same (address, vin-or-vout id, is_funding); on conflict the existing row is
\* kept, or in upsert mode takes the new matching_tx_hash
AddrInsert(t, row, checked, update) ==
  LET same == {r \in t.rows : /\ r.address = row.address
                              /\ r.dbid = row.dbid
                              /\ r.funding = row.funding}
  IN  IF ~checked \/ same = {}
        THEN [rows |-> t.rows \cup {[row EXCEPT !.id = t.seq + 1]},
              seq |-> t.seq + 1]
        ELSE IF update
          THEN [rows |-> {IF r \in same
                            THEN [r EXCEPT !.matching = row.matching]
                            ELSE r : r \in t.rows},
                seq |-> t.seq]
          ELSE t

\* lines 1043-1060: the rows of the list inserted one after the other
RECURSIVE AddrInsertAll(_, _, _, _)
AddrInsertAll(t, list, checked, update) ==
  IF list = <<>> THEN t
  ELSE AddrInsertAll(AddrInsert(t, Head(list), checked, update), Tail(list),
                     checked, update)

\* internal.SetAddressMatchingTxHashForOutpoint: the funding rows of the
\* outpoint
FundingRowsOf(rows, hash, index) ==
  {r \in rows : r.funding /\ r.tx = hash /\ r.index = index}

\* lines 2019-2029 setSpendingForFundingOP: matching_tx_hash of every funding
\* row of the outpoint becomes the spending transaction's hash
SetSpendingRows(rows, hash, index, spender) ==
  {IF r \in FundingRowsOf(rows, hash, index)
     THEN [r EXCEPT !.matching = spender] ELSE r : r \in rows}

\* lines 1604-1615: one address row for each address of the output; IsFunding
\* is set by the caller and MatchingTxHash is left empty
VoutAddressRows(o) ==
  [i \in 1..Len(OutAddresses(o)) |->
     [id |-> 0, address |-> OutAddresses(o)[i], tx |-> o.hash, matching |-> "",
      funding |-> TRUE, index |-> o.index, dbid |-> VoutDbID(o)]]

\* lines 2064-2083: the address of the spending row: utxoData.Address, or the
\* first address of the vouts row, or the empty string when there is no row
SpendingAddress(o, utxo, vouts) ==
  IF utxo \/ o \in vouts THEN OutAddresses(o)[1] ELSE ""

\* lines 2099-2104: the spending row: tx_hash is the spender and
\* matching_tx_hash the funding transaction
SpendingRow(v, addr) ==
  [id |-> 0, address |-> addr, tx |-> VinsTable[v].tx,
   matching |-> VinsTable[v].prevHash, funding |-> FALSE,
   index |-> VinsTable[v].index, dbid |-> v]

TxRollbackKeepsWrites(committed, pending) == pending
\* dbtx.Rollback(): the table is as it was before the transaction
TxRollback(committed, pending) == committed

AdFrame ==
  UNCHANGED <<caVars, syncVars, dbVars, iv, bt, rg, ut, ch, qy, sc>>

AdIdle == ad.pc = "idle" /\ ad.n < MaxAddrOps

\* lines 1567-1617 InsertVouts: the vouts row of an output is stored and the
\* address rows of the output are returned
AdInsertVouts(o, ok) ==
  /\ AdIdle
  /\ IF ok
       THEN ad' = [ad EXCEPT !.pc = "addrRows", !.vouts = @ \cup {o},
                             !.pend = VoutAddressRows(o), !.err = "nil",
                             !.call = [NoAddrCall EXCEPT !.op = "funding",
                                                          !.before = ad.rows]]
       ELSE ad' = [ad EXCEPT !.n = @ + 1, !.err = ErrVoutInsert,
                             !.call = [NoAddrCall EXCEPT !.op = "funding",
                                                          !.before = ad.rows]]
  /\ AdFrame

\* lines 1029-1066 InsertAddressRows: the funding rows of the output are
\* inserted in one database transaction
AdInsertAddressRows(ok) ==
  /\ ad.pc = "addrRows"
  /\ LET t == AddrInsertAll([rows |-> ad.rows, seq |-> ad.seq], ad.pend,
                            ad.checked, ad.update)
     IN  IF ok
           THEN ad' = [ad EXCEPT !.pc = "idle", !.n = @ + 1, !.rows = t.rows,
                                 !.seq = t.seq, !.pend = <<>>]
           ELSE ad' = [ad EXCEPT !.pc = "idle", !.n = @ + 1, !.pend = <<>>,
                                 !.err = ErrAddrInsert]
  /\ AdFrame

\* lines 2033-2036: InsertSpendingAddressRow is called for an input
AdSpendCall(v, upd, utxo) ==
  /\ AdIdle
  /\ ad' = [ad EXCEPT !.pc = "spendBegin", !.err = "nil", !.count = 0,
                      !.plain = @ /\ upd,
                      !.call = [NoAddrCall EXCEPT !.op = "spend", !.vin = v,
                                                   !.upd = upd, !.utxo = utxo,
                                                   !.before = ad.rows]]
  /\ AdFrame

\* lines 2038-2041: db.Begin()
AdSpendBegin(ok) ==
  /\ ad.pc = "spendBegin"
  /\ IF ok
       THEN ad' = [ad EXCEPT !.pc = "spendInsert",
                             !.tx = [rows |-> ad.rows, seq |-> ad.seq]]
       ELSE ad' = [ad EXCEPT !.pc = "idle", !.n = @ + 1, !.err = ErrAddrBegin]
  /\ AdFrame

\* lines 2064-2107: the address is looked up and the spending row inserted
AdSpendInsert(ok) ==
  /\ ad.pc = "spendInsert"
  /\ LET v == ad.call.vin
         addr == SpendingAddress(PrevOut(v), ad.call.utxo, ad.vouts)
     IN  IF ok
           THEN ad' = [ad EXCEPT
                  !.pc = IF ad.call.upd THEN "spendUpdate" ELSE "spendEnd",
                  !.tx = AddrInsert(ad.tx, SpendingRow(v, addr), ad.checked,
                                    ad.update)]
           ELSE ad' = [ad EXCEPT !.pc = "spendEnd", !.err = ErrAddrInsert]
  /\ AdFrame

\* lines 2109-2113: if updateFundingRow, setSpendingForFundingOP
AdSpendUpdate(ok) ==
  /\ ad.pc = "spendUpdate"
  /\ LET o == PrevOut(ad.call.vin)
     IN  IF ok
           THEN ad' = [ad EXCEPT
                  !.pc = "spendEnd",
                  !.count = Cardinality(FundingRowsOf(ad.tx.rows, o.hash, o.index)),
                  !.tx.rows = SetSpendingRows(ad.tx.rows, o.hash, o.index,
                                              VinsTable[ad.call.vin].tx)]
           ELSE ad' = [ad EXCEPT !.pc = "spendEnd", !.err = ErrAddrUpdate]
  /\ AdFrame

\* lines 2046-2051: on error dbtx.Rollback(), else dbtx.Commit()
AdSpendEnd(ok) ==
  /\ ad.pc = "spendEnd"
  /\ IF ad.err # "nil"
       THEN /\ ok
            /\ ad' = [ad EXCEPT !.pc = "idle", !.n = @ + 1, !.count = 0,
                                !.rows = TxRollback(ad.rows, ad.tx.rows)]
       ELSE IF ok
         THEN ad' = [ad EXCEPT !.pc = "idle", !.n = @ + 1,
                               !.rows = ad.tx.rows, !.seq = ad.tx.seq]
         ELSE ad' = [ad EXCEPT !.pc = "idle", !.n = @ + 1, !.err = ErrAddrCommit]
  /\ AdFrame

\* lines 1907 and 1969: SetSpendingForVinDbIDs(vinDbIDs) or
\* SetSpendingForVinDbID(vinDbID) is called
AdSetCall(many, list) ==
  /\ AdIdle
  /\ IF many THEN list \in VinIDLists ELSE list \in {<<v>> : v \in VinDbIDs}
  /\ ad' = [ad EXCEPT !.pc = "setBegin", !.err = "nil", !.count = 0,
                      !.plain = FALSE,
                      !.call = [NoAddrCall EXCEPT !.op = "set", !.many = many,
                                                   !.list = list, !.i = 1,
                                                   !.before = ad.rows]]
  /\ AdFrame

\* lines 1909-1913 and 1971-1975: db.Begin()
AdSetBegin(ok) ==
  /\ ad.pc = "setBegin"
  /\ IF ok
       THEN ad' = [ad EXCEPT !.pc = "setLoop",
                             !.tx = [rows |-> ad.rows, seq |-> ad.seq]]
       ELSE ad' = [ad EXCEPT !.pc = "idle", !.n = @ + 1, !.err = ErrAddrBegin]
  /\ AdFrame

\* lines 1929-1954 and 1977-1990: the vin row is read; a coinbase input is
\* skipped (SetSpendingForVinDbIDs) or ends the call with a rollback
\* (SetSpendingForVinDbID); else the funding rows of its outpoint are updated
AdSetStep(ok) ==
  /\ ad.pc = "setLoop"
  /\ LET v == ad.call.list[ad.call.i]
         more == ad.call.i < Len(ad.call.list)
         next == IF more THEN "setLoop" ELSE "setEnd"
     IN  IF v \notin DOMAIN VinsTable \/ ~ok
           THEN /\ v \notin DOMAIN VinsTable => ok
                /\ ad' = [ad EXCEPT !.pc = "setEnd",
                            !.err = IF v \in DOMAIN VinsTable
                                      THEN ErrAddrUpdate ELSE ErrVinQuery]
           ELSE IF VinsTable[v].prevHash = zeroHashStringBytes
             THEN IF ad.call.many
                    THEN ad' = [ad EXCEPT !.pc = next, !.call.i = @ + 1]
                    ELSE ad' = [ad EXCEPT !.pc = "setEnd",
                                          !.call.rollback = TRUE]
             ELSE ad' = [ad EXCEPT
                    !.pc = next, !.call.i = @ + 1,
                    !.call.touched = @ \cup {v},
                    !.count = @ + Cardinality(FundingRowsOf(ad.tx.rows,
                                   VinsTable[v].prevHash, VinsTable[v].prevIndex)),
                    !.tx.rows = SetSpendingRows(ad.tx.rows, VinsTable[v].prevHash,
                                   VinsTable[v].prevIndex, VinsTable[v].tx)]
  /\ AdFrame

\* lines 1922-1927, 1957 and 1982, 1992: rollback after an error or for a
\* coinbase input, else dbtx.Commit()
AdSetEnd(ok) ==
  /\ ad.pc = "setEnd"
  /\ IF ad.err # "nil" \/ ad.call.rollback
       THEN /\ ok
            /\ ad' = [ad EXCEPT !.pc = "idle", !.n = @ + 1, !.count = 0,
                                !.rows = TxRollback(ad.rows, ad.tx.rows)]
       ELSE IF ok
         THEN ad' = [ad EXCEPT !.pc = "idle", !.n = @ + 1, !.rows = ad.tx.rows]
         ELSE ad' = [ad EXCEPT !.pc = "idle", !.n = @ + 1, !.err = ErrAddrCommit]
  /\ AdFrame

\* the insert mode of the run: unchecked, checked, or checked with update
AdInit ==
  /\ CAIdle /\ SyIdle /\ DBIdle
  /\ iv = NoVotes /\ bt = NoBatch /\ rg = NoReorg /\ ut = NoUpdate /\ ch = NoCharts
  /\ qy = NoQuery /\ sc = NoSide
  /\ \E checked \in BOOLEAN, update \in BOOLEAN :
       /\ update => checked
       /\ ad = [NoAddr EXCEPT !.checked = checked, !.update = update]

AdNext ==
  \/ \E o \in Outpoints, ok \in BOOLEAN : AdInsertVouts(o, ok)
  \/ \E ok \in BOOLEAN : AdInsertAddressRows(ok)
  \/ \E v \in SpendingVins, upd \in BOOLEAN, utxo \in BOOLEAN :
       AdSpendCall(v, upd, utxo)
  \/ \E ok \in BOOLEAN : AdSpendBegin(ok)
  \/ \E ok \in BOOLEAN : AdSpendInsert(ok)
  \/ \E ok \in BOOLEAN : AdSpendUpdate(ok)
  \/ \E ok \in BOOLEAN : AdSpendEnd(ok)
  \/ \E many \in BOOLEAN, list \in VinIDLists \cup {<<v>> : v \in VinDbIDs} :
       AdSetCall(many, list)
  \/ \E ok \in BOOLEAN : AdSetBegin(ok)
  \/ \E ok \in BOOLEAN : AdSetStep(ok)
  \/ \E ok \in BOOLEAN : AdSetEnd(ok)

SpecAddr == AdInit /\ [][AdNext]_vars

\* the last call was InsertSpendingAddressRow with updateFundingRow and it has
\* returned
SpendReturned ==
  /\ ad.pc = "idle"
  /\ ad.call.op = "spend"
  /\ ad.call.upd

\* the spending row of the call: is_funding false, tx_hash the spender,
\* matching_tx_hash the funder
HasSpendingRow(rows, v) ==
  \E r \in rows : /\ ~r.funding
                  /\ r.tx = VinsTable[v].tx
                  /\ r.matching = VinsTable[v].prevHash
                  /\ r.dbid = v

\* both writes of the call are in the table
SpendBothWritten ==
  /\ HasSpendingRow(ad.rows, ad.call.vin)
  /\ \A r \in FundingRowsOf(ad.rows, VinsTable[ad.call.vin].prevHash,
                            VinsTable[ad.call.vin].prevIndex) :
       r.matching = VinsTable[ad.call.vin].tx

\* a row of the transaction differs from the row before the call only if it is
\* a funding row of the outpoint of an input the update was run for
OnlyTouchedOutpointsChange ==
  \A r \in ad.tx.rows :
    r \notin ad.call.before =>
      \E v \in ad.call.touched : r \in FundingRowsOf(ad.tx.rows,
                                   VinsTable[v].prevHash, VinsTable[v].prevIndex)

\* C24: InsertSpendingAddressRow with updateFundingRow=true writes the spending
\* row (is_funding=false, tx_hash = spender, matching_tx_hash = funder) and the
\* matching_tx_hash of the funding rows of the outpoint in one database
\* transaction: after the call both are in the table or the table is as before,
\* and during the call the table is as before; SetSpendingForVinDbID and
\* SetSpendingForVinDbIDs run no update for a coinbase input and change no row
\* for it
C24_SpendAtomicCoinbaseSkipped ==
  /\ SpendReturned =>
       IF ad.err = "nil" THEN SpendBothWritten ELSE ad.rows = ad.call.before
  /\ ad.pc \in {"spendBegin", "spendInsert", "spendUpdate", "spendEnd",
                "setBegin", "setLoop", "setEnd"} => ad.rows = ad.call.before
  /\ ad.call.op = "set" =>
       /\ \A v \in ad.call.touched : VinsTable[v].prevHash # zeroHashStringBytes
       /\ ad.pc \in {"setLoop", "setEnd"} => OnlyTouchedOutpointsChange
       /\ (ad.pc = "idle" /\ ad.call.touched = {}) => ad.rows = ad.call.before

\* a call with updateFundingRow that linked a funding row already in the table
C24_Witness ==
  /\ SpendReturned /\ ad.err = "nil"
  /\ ad.count > 0
  /\ ad.rows # ad.call.before

\* a call with updateFundingRow that failed after the spending row was written
\* in the transaction
C24_WitnessRolledBack ==
  /\ SpendReturned /\ ad.err = ErrAddrUpdate
  /\ ad.tx.rows # ad.call.before

\* SetSpendingForVinDbIDs went past a coinbase input and updated the next one
C24_WitnessCoinbase ==
  /\ ad.pc = "idle" /\ ad.call.op = "set" /\ ad.call.list = <<4, 1>>
  /\ ad.err = "nil" /\ ad.count > 0


\* only funding inserts and InsertSpendingAddressRow calls with updateFundingRow
\* have been made, and none is in progress
OnlyLinkedInserts == ad.pc = "idle" /\ ad.plain

\* the spending rows that answer the funding row R
SpendingRowsFor(R) ==
  {S \in ad.rows : /\ ~S.funding
                   /\ S.tx = R.matching
                   /\ S.address = R.address
                   /\ S.matching = R.tx}

LinkedFundingRows == {R \in ad.rows : R.funding /\ R.matching # ""}

\* C25: after funding inserts (multi-address outputs included) and spending
\* inserts with updateFundingRow=true, every funding row R with matching_tx_hash
\* set has exactly one spending row R' with tx_hash = R.matching_tx_hash,
\* is_funding = false, the same address and matching_tx_hash = R.tx_hash
C25_FundingRowHasOneSpendingRow ==
  OnlyLinkedInserts =>
    \A R \in LinkedFundingRows : Cardinality(SpendingRowsFor(R)) = 1

\* the same with "at least one" in place of "exactly one": still fails, for the
\* second address of a multi-address output
C25_FundingRowHasSpendingRow ==
  OnlyLinkedInserts =>
    \A R \in LinkedFundingRows : SpendingRowsFor(R) # {}

\* what the code does give: the funding row of the first address of the output
\* has a spending row
C25_FirstAddressHasSpendingRow ==
  OnlyLinkedInserts =>
    \A R \in LinkedFundingRows :
      R.address = OutAddresses([hash |-> R.tx, index |-> R.index])[1]
        => SpendingRowsFor(R) # {}


(* ========== dcrpg: InsertTxns, InsertVouts, InsertTickets (batch inserts) ========== *)

\* number of batch insert calls in one run
MaxBatchCalls == 2

ErrNoRows == "sql: no rows in result set"

\* the elements of a batch: k1 and k2 are ticket purchases (SStx), v1 is a vote
\* (SSGen); for InsertVouts the names stand for the outputs of one transaction
BatchInputs ==
  {<<"k1">>, <<"k1", "k2">>, <<"k2", "k1">>, <<"v1", "k1">>,
   <<"k1", "v1", "k2">>, <<"k1", "k1">>}

TxTypeSStx == "SStx"

\* tx.TxType of an element
BatchTxType(e) == IF e = "v1" THEN TxTypeSSGen ELSE TxTypeSStx

\* the dbtypes.Tx of an element, all of one block
BatchTx(e) ==
  [tx_hash |-> e, block_hash |-> "b1", is_valid |-> TRUE, is_mainchain |-> TRUE,
   cols |-> 0]

\* lines 224-231 "Choose only SSTx": the ticket purchases of the batch in order
RECURSIVE ChooseSStx(_)
ChooseSStx(batch) ==
  IF batch = <<>> THEN <<>>
  ELSE IF BatchTxType(Head(batch)) = TxTypeSStx
    THEN <<Head(batch)>> \o ChooseSStx(Tail(batch))
    ELSE ChooseSStx(Tail(batch))

\* the elements a batch function runs its insert statement for
InsertedOf(fn, batch) == IF fn = "InsertTickets" THEN ChooseSStx(batch) ELSE batch

\* the table of a batch function
TableOf(fn) ==
  CASE fn = "InsertTxns" -> "transactions"
    [] fn = "InsertVouts" -> "vouts"
    [] OTHER -> "tickets"

BatchFns == {"InsertTxns", "InsertVouts", "InsertTickets"}

TxInsertNoUnion(T, q, uix, row, stmt) ==
  LET r == ExecTxInsert(T, q, uix, row, stmt)
  IN  IF stmt = "InsertTxRowOnConflictDoNothing" /\ uix /\ Conflicting(T, row) # {}
        THEN [r EXCEPT !.id = 0, !.err = ErrNoRows]
        ELSE r
\* txstmts.go 60-74 and the statements of the vouts and tickets tables: every
\* statement answers with one row id; the do-nothing statement takes the id of
\* the conflicting row from the SELECT it is unioned with
TxInsertReturning(T, q, uix, row, stmt) == ExecTxInsert(T, q, uix, row, stmt)

\* the loop of a batch function over the elements from k on: sql.ErrNoRows is
\* skipped without an id (lines 2249-2251, 262-264, 1595-1597), another error
\* ends the loop
RECURSIVE BatchLoop(_, _, _, _, _, _, _)
BatchLoop(T, q, uix, batch, k, stmt, ids) ==
  IF k > Len(batch)
    THEN [table |-> T, seq |-> q, ids |-> ids, err |-> ErrNil]
    ELSE LET r == TxInsertReturning(T, q, uix, BatchTx(batch[k]), stmt)
         IN  IF r.err = ErrNoRows
               THEN BatchLoop(r.table, r.seq, uix, batch, k + 1, stmt, ids)
             ELSE IF r.err # ErrNil
               THEN [table |-> T, seq |-> r.seq, ids |-> ids, err |-> r.err]
             ELSE BatchLoop(r.table, r.seq, uix, batch, k + 1, stmt,
                            Append(ids, r.id))

BtFrame ==
  UNCHANGED <<caVars, syncVars, dbVars, iv, ad, rg, ut, ch, qy, sc>>

\* InsertTxns, InsertVouts or InsertTickets: Begin, Prepare, the loop, Commit;
\* the rows are kept only if no statement failed and Commit succeeded, the ids
\* are returned also when Commit fails
BatchInsert(fn, batch, fail) ==
  /\ bt.n < MaxBatchCalls
  /\ LET t == TableOf(fn)
         elems == InsertedOf(fn, batch)
         stmt == MakeTxInsertStatement(bt.checked, bt.update)
         r == BatchLoop(bt.rows[t], bt.seq[t], bt.uix, elems, 1, stmt, <<>>)
         call == [bt EXCEPT !.n = @ + 1, !.fn = fn, !.input = batch,
                            !.inserted = elems]
     IN  IF fail = "begin"
           THEN bt' = [call EXCEPT !.ids = <<>>, !.err = ErrDB]
         ELSE IF r.err # ErrNil
           THEN bt' = [call EXCEPT !.ids = <<>>, !.err = r.err, !.seq[t] = r.seq]
         ELSE IF fail = "commit"
           THEN bt' = [call EXCEPT !.ids = r.ids, !.err = ErrDB, !.seq[t] = r.seq]
         ELSE bt' = [call EXCEPT !.ids = r.ids, !.err = ErrNil, !.seq[t] = r.seq,
                                 !.rows[t] = r.table]
  /\ BtFrame

\* the insert mode of the run and whether the unique indexes exist
BtInit ==
  /\ CAIdle /\ SyIdle /\ DBIdle
  /\ iv = NoVotes /\ ad = NoAddr /\ rg = NoReorg /\ ut = NoUpdate /\ ch = NoCharts
  /\ qy = NoQuery /\ sc = NoSide
  /\ \E m \in InsertModes, uix \in BOOLEAN :
       bt = [NoBatch EXCEPT !.checked = m[1], !.update = m[2], !.uix = uix]

BtNext ==
  \E fn \in BatchFns, batch \in BatchInputs, fail \in Failures :
    BatchInsert(fn, batch, fail)

SpecBatch == BtInit /\ [][BtNext]_vars

\* a batch insert in a checked mode returned without error
CheckedBatchDone == bt.fn \in BatchFns /\ bt.checked /\ bt.err = ErrNil

\* ids is as long as elems and ids[i] is the id of the row of elems[i]
IdsAlignedWith(elems) ==
  /\ Len(bt.ids) = Len(elems)
  /\ \A i \in 1..Len(elems) :
       \E r \in bt.rows[TableOf(bt.fn)] :
         r.id = bt.ids[i] /\ r.tx_hash = elems[i]

\* C26 as stated: in checked modes InsertTxns, InsertVouts and InsertTickets
\* return one id for every element of the input, in the order of the input
C26_IdForEveryInput == CheckedBatchDone => IdsAlignedWith(bt.input)

\* C26 amended: InsertTxns and InsertVouts return one id for every element of
\* the input in the order of the input; InsertTickets returns one id for every
\* ticket purchase (SStx) of the input, in the order of the ticketTx slice it
\* returns with the ids, and none for the other stake transactions
C26_IdForEveryInserted == CheckedBatchDone => IdsAlignedWith(bt.inserted)

\* a checked batch with a row that was in the table before and a new one
C26_Witness ==
  /\ CheckedBatchDone
  /\ bt.n = 2
  /\ Len(bt.inserted) = 2
  /\ bt.ids[1] # bt.ids[2]
  /\ bt.seq[TableOf(bt.fn)] > Cardinality(bt.rows[TableOf(bt.fn)])

\* InsertTickets on a batch that holds a vote between two ticket purchases
C26_WitnessTickets ==
  /\ CheckedBatchDone
  /\ bt.fn = "InsertTickets"
  /\ bt.input = <<"k1", "v1", "k2">>
  /\ Len(bt.ids) = 2


(* ============== dcrpg: is_mainchain flags in a reorganization ============== *)

\* greatest number of blocks of a branch above the common ancestor
MaxBranch == 2

ErrReorg == "reorg step failed"

\* a block is named by its branch and height; the common ancestor X has height 0
BlockX == [br |-> "x", h |-> 0]

Branch(br, n) == [i \in 1..n |-> [br |-> br, h |-> i]]

SeqRange(q) == {q[i] : i \in 1..Len(q)}

\* the transaction of a block; with shared, the blocks at height 1 of the two
\* branches hold the same transaction
TxOfBlock(b, shared) ==
  IF shared /\ b.h = 1 THEN <<"ab", 1>> ELSE <<b.br, b.h>>

\* the rows a stored block has: the block row, its transactions row (unique on
\* tx hash and block hash), its ticket and vote rows
BlockRow(b, main) == [hash |-> b, main |-> main]

TxRowOf(b, shared, main) == [tx |-> TxOfBlock(b, shared), block |-> b, main |-> main]

\* the address rows of a transaction: a spending row (by vin id) and a funding
\* row (by vout id); vins and vouts are unique on the transaction hash and
\* index, so two blocks with the same transaction have the same ids
AddrRowsOf(tx, main) ==
  {[tx |-> tx, funding |-> f, main |-> main] : f \in BOOLEAN}

\* internal.UpdateBlockMainchain: is_mainchain of the block with this hash
SetBlockMainchain(blocks, b, val) ==
  {IF r.hash = b THEN [r EXCEPT !.main = val] ELSE r : r \in blocks}

\* txstmts.go 155-158 UpdateTxnsMainchainByBlock, and the like statements of
\* tickets and votes: is_mainchain of the rows with this block hash
SetMainchainByBlock(rows, b, val) ==
  {IF r.block = b THEN [r EXCEPT !.main = val] ELSE r : r \in rows}

\* SetAddressMainchainForVinIDs / SetAddressMainchainForVoutIDs: valid_mainchain
\* of the spending (funding) rows with the vin (vout) ids of the transaction
SetAddressMainchain(addr, tx, funding, val) ==
  {IF r.tx = tx /\ r.funding = funding THEN [r EXCEPT !.main = val] ELSE r :
     r \in addr}

UpdateAddressesMainchainVinsOnly(addr, tx, val, okVins, okVouts) ==
  IF ~okVins THEN addr ELSE SetAddressMainchain(addr, tx, FALSE, val)
\* lines 2979-3007 UpdateAddressesMainchainByIDs: the spending rows first,
\* then the funding rows; an error returns with what was updated so far
UpdateAddressesMainchainByIDs(addr, tx, val, okVins, okVouts) ==
  IF ~okVins THEN addr
  ELSE LET a1 == SetAddressMainchain(addr, tx, FALSE, val)
       IN  IF ~okVouts THEN a1 ELSE SetAddressMainchain(a1, tx, TRUE, val)

OldBranch == Branch("a", rg.oldLen)

NewBranch == Branch("b", rg.newLen)

\* the block the reorganization is at and the flag it gets
RgCur == IF rg.phase = "old" THEN OldBranch[rg.k] ELSE NewBranch[rg.k]

RgVal == rg.phase = "new"

RgPresent(b) == \E r \in rg.blocks : r.hash = b

\* after the last table of a block: the next block of the branch, then the new
\* branch, then the stake database
RgAdvance(r) ==
  IF (r.phase = "old" /\ r.k < r.oldLen) \/ (r.phase = "new" /\ r.k < r.newLen)
    THEN [r EXCEPT !.pc = "block", !.k = @ + 1]
  ELSE IF r.phase = "old"
    THEN [r EXCEPT !.pc = "block", !.phase = "new", !.k = 1]
  ELSE [r EXCEPT !.pc = "stakeDisconnect"]

RgFail(r) == [r EXCEPT !.pc = "failed", !.err = ErrReorg]

RgFrame ==
  UNCHANGED <<caVars, syncVars, dbVars, iv, ad, bt, ut, ch, qy, sc>>

\* the reorg notification (oldTip, newTip): the common ancestor is X
RgReorg ==
  /\ rg.pc = "tip"
  /\ rg' = [rg EXCEPT !.pc = "block", !.phase = "old", !.k = 1]
  /\ RgFrame

\* lines 2863-2866 SetMainchainByBlockHash on a block that is stored
RgSetMainchainByBlockHash(ok) ==
  /\ rg.pc = "block"
  /\ RgPresent(RgCur)
  /\ IF ok
       THEN rg' = [rg EXCEPT !.pc = "txs",
                             !.blocks = SetBlockMainchain(@, RgCur, RgVal)]
       ELSE rg' = RgFail(rg)
  /\ RgFrame

\* a block of the new branch that is not stored is inserted with its rows,
\* checked and updating on conflict, as a main chain block
RgStoreBlock(ok) ==
  /\ rg.pc = "block"
  /\ ~RgPresent(RgCur)
  /\ LET b == RgCur
         tx == TxOfBlock(b, rg.shared)
     IN  IF ok
           THEN rg' = RgAdvance([rg EXCEPT
                  !.blocks = @ \cup {BlockRow(b, TRUE)},
                  !.txs = @ \cup {TxRowOf(b, rg.shared, TRUE)},
                  !.tickets = @ \cup {[block |-> b, main |-> TRUE]},
                  !.votes = @ \cup {[block |-> b, main |-> TRUE]},
                  !.addr = {r \in @ : r.tx # tx} \cup AddrRowsOf(tx, TRUE)])
           ELSE rg' = RgFail(rg)
  /\ RgFrame

\* lines 2907-2927 UpdateTransactionsMainchain
RgUpdateTransactionsMainchain(ok) ==
  /\ rg.pc = "txs"
  /\ IF ok
       THEN rg' = [rg EXCEPT !.pc = "addrs",
                             !.txs = SetMainchainByBlock(@, RgCur, RgVal)]
       ELSE rg' = RgFail(rg)
  /\ RgFrame

\* lines 2979-3007 UpdateAddressesMainchainByIDs with the vin and vout ids of
\* the transactions of the block
RgUpdateAddressesMainchainByIDs(okVins, okVouts) ==
  /\ rg.pc = "addrs"
  /\ LET a == UpdateAddressesMainchainByIDs(rg.addr, TxOfBlock(RgCur, rg.shared),
                                            RgVal, okVins, okVouts)
     IN  IF okVins /\ okVouts
           THEN rg' = [rg EXCEPT !.pc = "tickets", !.addr = a]
           ELSE rg' = [RgFail(rg) EXCEPT !.addr = a]
  /\ RgFrame

\* lines 2968-2975 UpdateTicketsMainchain
RgUpdateTicketsMainchain(ok) ==
  /\ rg.pc = "tickets"
  /\ IF ok
       THEN rg' = [rg EXCEPT !.pc = "votes",
                             !.tickets = SetMainchainByBlock(@, RgCur, RgVal)]
       ELSE rg' = RgFail(rg)
  /\ RgFrame

\* lines 2957-2964 UpdateVotesMainchain
RgUpdateVotesMainchain(ok) ==
  /\ rg.pc = "votes"
  /\ IF ok
       THEN rg' = RgAdvance([rg EXCEPT
                    !.votes = SetMainchainByBlock(@, RgCur, RgVal)])
       ELSE rg' = RgFail(rg)
  /\ RgFrame

\* the stake database is disconnected block by block down to the ancestor
RgStakeDisconnect(ok) ==
  /\ rg.pc = "stakeDisconnect"
  /\ IF ~ok THEN rg' = RgFail(rg)
     ELSE IF rg.stake > BlockX.h
       THEN rg' = [rg EXCEPT !.stake = @ - 1]
       ELSE rg' = [rg EXCEPT !.pc = "stakeConnect"]
  /\ RgFrame

\* and connected along the new branch up to the new tip
RgStakeConnect(ok) ==
  /\ rg.pc = "stakeConnect"
  /\ IF ~ok THEN rg' = RgFail(rg)
     ELSE IF rg.stake < rg.newLen
       THEN rg' = [rg EXCEPT !.stake = @ + 1]
       ELSE rg' = [rg EXCEPT !.pc = "done"]
  /\ RgFrame

\* the rows of a stored side chain block: its own rows with is_mainchain false;
\* the address rows of its transaction exist once, with the flag of the main
\* chain if the transaction is in a main chain block too
RgStored(oldLen, newLen, shared, side) ==
  LET old == SeqRange(Branch("a", oldLen)) \cup {BlockX}
      all == old \cup side
      mainTxs == {TxOfBlock(b, shared) : b \in old}
  IN  [NoReorg EXCEPT
         !.pc = "tip", !.oldLen = oldLen, !.newLen = newLen, !.shared = shared,
         !.k = 1, !.stake = oldLen,
         !.blocks = {BlockRow(b, b \in old) : b \in all},
         !.txs = {TxRowOf(b, shared, b \in old) : b \in all},
         !.tickets = {[block |-> b, main |-> b \in old] : b \in all},
         !.votes = {[block |-> b, main |-> b \in old] : b \in all},
         !.addr = UNION {AddrRowsOf(TxOfBlock(b, shared),
                                    TxOfBlock(b, shared) \in mainTxs) : b \in all}]

\* the old branch is the main chain and the stake database is at its tip; any
\* of the blocks of the new branch may be stored already as side chain blocks
RgInit ==
  /\ CAIdle /\ SyIdle /\ DBIdle
  /\ iv = NoVotes /\ ad = NoAddr /\ bt = NoBatch /\ ut = NoUpdate /\ ch = NoCharts
  /\ qy = NoQuery /\ sc = NoSide
  /\ \E oldLen \in 1..MaxBranch, newLen \in 1..MaxBranch, shared \in BOOLEAN :
       \E side \in SUBSET SeqRange(Branch("b", newLen)) :
         rg = RgStored(oldLen, newLen, shared, side)

RgNext ==
  \/ RgReorg
  \/ \E ok \in BOOLEAN : RgSetMainchainByBlockHash(ok)
  \/ \E ok \in BOOLEAN : RgStoreBlock(ok)
  \/ \E ok \in BOOLEAN : RgUpdateTransactionsMainchain(ok)
  \/ \E okVins, okVouts \in BOOLEAN : RgUpdateAddressesMainchainByIDs(okVins, okVouts)
  \/ \E ok \in BOOLEAN : RgUpdateTicketsMainchain(ok)
  \/ \E ok \in BOOLEAN : RgUpdateVotesMainchain(ok)
  \/ \E ok \in BOOLEAN : RgStakeDisconnect(ok)
  \/ \E ok \in BOOLEAN : RgStakeConnect(ok)

SpecReorg == RgInit /\ [][RgNext]_vars

RgMain(b) == \E r \in rg.blocks : r.hash = b /\ r.main

\* the blocks of the branches have their flags, the rows keyed by block hash
\* have the flag of their block, one main chain block per height, the stake
\* database at the new tip
ReorgFlagsByBlock ==
  /\ \A b \in SeqRange(OldBranch) : RgPresent(b) /\ ~RgMain(b)
  /\ \A b \in SeqRange(NewBranch) : RgPresent(b) /\ RgMain(b)
  /\ \A r \in rg.txs \cup rg.tickets \cup rg.votes : r.main = RgMain(r.block)
  /\ \A r1, r2 \in rg.blocks :
       (r1.main /\ r2.main /\ r1.hash.h = r2.hash.h) => r1 = r2
  /\ rg.stake = rg.newLen

\* every address row of every transaction of a block has the flag of the block
AddrFlagOfEveryBlock ==
  \A t \in rg.txs : \A r \in rg.addr : r.tx = t.tx => r.main = RgMain(t.block)

\* an address row has valid_mainchain exactly if its transaction is in a main
\* chain block
AddrFlagOfMainBlock ==
  \A r \in rg.addr : r.main = (\E t \in rg.txs : t.tx = r.tx /\ RgMain(t.block))

C27_WitnessShared == rg.pc = "done" /\ rg.shared


(* ======= dcrpg: UpdateTransactionsValid and UpdateTransactionsMainchain ======= *)

\* number of update calls in one run
MaxUpdates == 2

ErrUpdateValid == "failed to update regular transactions is_valid"
ErrUpdateMainchain == "failed to update transactions is_mainchain"

\* the transactions rows: block b1 has two regular transactions (tree 0) and a
\* stake transaction (tree 1), block b2 one of each
UtRows(valid, main) ==
  {[id |-> 1, block |-> "b1", tree |-> 0, is_valid |-> valid["b1"], is_mainchain |-> main["b1"]],
   [id |-> 2, block |-> "b1", tree |-> 1, is_valid |-> valid["b1"], is_mainchain |-> main["b1"]],
   [id |-> 3, block |-> "b1", tree |-> 0, is_valid |-> valid["b1"], is_mainchain |-> main["b1"]],
   [id |-> 4, block |-> "b2", tree |-> 0, is_valid |-> valid["b2"], is_mainchain |-> main["b2"]],
   [id |-> 5, block |-> "b2", tree |-> 1, is_valid |-> valid["b2"], is_mainchain |-> main["b2"]]}

\* block hashes passed to the calls; b3 has no rows
UtBlocks == {"b1", "b2", "b3"}

\* txstmts.go 151-153 UpdateRegularTxnsValidByBlock:
\* UPDATE transactions SET is_valid=$1 WHERE block_hash=$2 and tree=0
RegularTxnsValidByBlock(rows, isValid, blockHash) ==
  {IF r.block = blockHash /\ r.tree = 0
     THEN [r EXCEPT !.is_valid = isValid] ELSE r : r \in rows}

\* txstmts.go 155-158 UpdateTxnsMainchainByBlock:
\* UPDATE transactions SET is_mainchain=$1 WHERE block_hash=$2 RETURNING id
TxnsMainchainByBlock(rows, isMainchain, blockHash) ==
  {IF r.block = blockHash
     THEN [r EXCEPT !.is_mainchain = isMainchain] ELSE r : r \in rows}

\* the ids a set of rows has, in ascending order
RECURSIVE IdsInOrder(_)
IdsInOrder(R) ==
  IF R = {} THEN <<>>
  ELSE LET m == CHOOSE i \in R : \A j \in R : i <= j
       IN  <<m>> \o IdsInOrder(R \ {m})

UtFrame ==
  UNCHANGED <<caVars, syncVars, dbVars, iv, ad, bt, rg, ch, qy, sc>>

\* lines 2932-2952 UpdateTransactionsValid: the statement has no RETURNING
\* clause, so the loop over the result reads no row
UpdateTransactionsValid(blockHash, isValid, ok) ==
  /\ ut.n < MaxUpdates
  /\ LET call == [ut EXCEPT !.n = @ + 1, !.fn = "UpdateTransactionsValid",
                            !.block = blockHash, !.val = isValid,
                            !.before = ut.rows, !.ids = <<>>, !.numRows = 0]
     IN  IF ok
           THEN ut' = [call EXCEPT
                  !.rows = RegularTxnsValidByBlock(ut.rows, isValid, blockHash),
                  !.updated = {r.id : r \in {x \in ut.rows :
                                 x.block = blockHash /\ x.tree = 0}},
                  !.err = "nil"]
           ELSE ut' = [call EXCEPT !.updated = {}, !.err = ErrUpdateValid]
  /\ UtFrame

\* lines 2907-2927 UpdateTransactionsMainchain: the ids are read from the
\* result; a row that rows.Scan fails on ends the loop (break) and the ids read
\* so far are returned with a nil error
UpdateTransactionsMainchain(blockHash, isMainchain, ok, scanned) ==
  /\ ut.n < MaxUpdates
  /\ LET call == [ut EXCEPT !.n = @ + 1, !.fn = "UpdateTransactionsMainchain",
                            !.block = blockHash, !.val = isMainchain,
                            !.before = ut.rows]
         hit == {r.id : r \in {x \in ut.rows : x.block = blockHash}}
         all == IdsInOrder(hit)
     IN  /\ scanned \in 0..Len(all)
         /\ ~ok => scanned = 0
         /\ IF ok
              THEN ut' = [call EXCEPT
                     !.rows = TxnsMainchainByBlock(ut.rows, isMainchain, blockHash),
                     !.updated = hit,
                     !.ids = SubSeq(all, 1, scanned), !.numRows = scanned,
                     !.err = "nil"]
              ELSE ut' = [call EXCEPT !.updated = {}, !.ids = <<>>,
                                      !.numRows = 0, !.err = ErrUpdateMainchain]
  /\ UtFrame

UtInit ==
  /\ CAIdle /\ SyIdle /\ DBIdle
  /\ iv = NoVotes /\ ad = NoAddr /\ bt = NoBatch /\ rg = NoReorg /\ ch = NoCharts
  /\ qy = NoQuery /\ sc = NoSide
  /\ \E valid, main \in [{"b1", "b2"} -> BOOLEAN] :
       ut = [NoUpdate EXCEPT !.rows = UtRows(valid, main)]

UtNext ==
  \/ \E b \in UtBlocks, v, ok \in BOOLEAN : UpdateTransactionsValid(b, v, ok)
  \/ \E b \in UtBlocks, v, ok \in BOOLEAN, scanned \in 0..3 :
       UpdateTransactionsMainchain(b, v, ok, scanned)

SpecUpdate == UtInit /\ [][UtNext]_vars

\* the row a row was before the call
UtBefore(r) == CHOOSE r0 \in ut.before : r0.id = r.id

\* UpdateTransactionsValid changed is_valid of the tree=0 rows of the block and
\* nothing else
ValidFrame ==
  (ut.fn = "UpdateTransactionsValid" /\ ut.err = "nil") =>
    /\ {r.id : r \in ut.rows} = {r.id : r \in ut.before}
    /\ \A r \in ut.rows :
         IF r.block = ut.block /\ r.tree = 0
           THEN r = [UtBefore(r) EXCEPT !.is_valid = ut.val]
           ELSE r = UtBefore(r)

\* UpdateTransactionsMainchain changed is_mainchain of the rows of the block
\* and nothing else
MainchainFrame ==
  (ut.fn = "UpdateTransactionsMainchain" /\ ut.err = "nil") =>
    /\ {r.id : r \in ut.rows} = {r.id : r \in ut.before}
    /\ \A r \in ut.rows :
         IF r.block = ut.block
           THEN r = [UtBefore(r) EXCEPT !.is_mainchain = ut.val]
           ELSE r = UtBefore(r)

\* a call that failed changed nothing
FailedUpdateFrame == ut.err # "nil" => ut.rows = ut.before

\* the ids returned are the ids of the rows updated, each once
ReturnsUpdatedIds ==
  ut.fn = "UpdateTransactionsMainchain" =>
    /\ SeqRange(ut.ids) = ut.updated
    /\ Len(ut.ids) = Cardinality(ut.updated)
    /\ ut.numRows = Len(ut.ids)

\* C28: UpdateTransactionsValid changes only is_valid of the tree=0
\* transactions of the block; UpdateTransactionsMainchain changes only
\* is_mainchain, of all transactions of the block and no other, and returns the
\* ids of exactly the rows it updated
C28_UpdateFrameAndIds ==
  ValidFrame /\ MainchainFrame /\ FailedUpdateFrame /\ ReturnsUpdatedIds

\* the frame part of C28 alone holds
C28_UpdateFrame == ValidFrame /\ MainchainFrame /\ FailedUpdateFrame

\* the ids part holds when every row of the result was scanned
C28_IdsWhenAllScanned ==
  (ut.fn = "UpdateTransactionsMainchain" /\ ut.numRows = Cardinality(ut.updated))
    => ReturnsUpdatedIds


(* ===================== explorer: charts data cache ====================== *)

\* greatest height of the explorer in a run
MaxTip == 10

\* explorer.go 549: the charts data is updated after every five blocks
chartsUpdateInterval == 5

\* lines 120-125 height(): -1 while there is no data
CacheHeight == IF ch.data = NoData THEN -1 ELSE ch.updateHeight

UpdateWithoutLock == FALSE
\* lines 113-117 Update: c.Lock() before update(), c.Unlock() after
UpdateTakesLock == TRUE

ChFrame ==
  UNCHANGED <<caVars, syncVars, dbVars, iv, ad, bt, rg, ut, qy, sc>>

\* lines 487-553 Store: BlockInfo becomes the new block; unless a sync is
\* running, prePopulateChartsData is started in a goroutine if the height is a
\* multiple of five or the cache is empty (Height() takes the read lock)
ChStore(sync) ==
  /\ ch.tip < MaxTip
  /\ LET h == ch.tip + 1
         asksCache == ~sync /\ h % chartsUpdateInterval # 0
         due == ~sync /\ (h % chartsUpdateInterval = 0 \/ CacheHeight = -1)
     IN  /\ asksCache => ch.writer = 0
         /\ IF due
              THEN \E u \in Updaters :
                     /\ ch.upc[u] = "idle"
                     /\ ch' = [ch EXCEPT !.tip = h, !.upc[u] = "start"]
              ELSE ch' = [ch EXCEPT !.tip = h]
  /\ ChFrame

\* lines 459-553 Store with the new tip of a reorg: a block of another branch
\* at the height of the old tip or one above it; Store treats it as any block
ChStoreReorg(sync, up) ==
  /\ ch.branch = 0
  /\ ch.tip + up <= MaxTip
  /\ LET h == ch.tip + up
         asksCache == ~sync /\ h % chartsUpdateInterval # 0
         due == ~sync /\ (h % chartsUpdateInterval = 0 \/ CacheHeight = -1)
     IN  /\ asksCache => ch.writer = 0
         /\ IF due
              THEN \E u \in Updaters :
                     /\ ch.upc[u] = "idle"
                     /\ ch' = [ch EXCEPT !.tip = h, !.branch = 1,
                                         !.upc[u] = "start"]
              ELSE ch' = [ch EXCEPT !.tip = h, !.branch = 1]
  /\ ChFrame

\* lines 412-416: nothing is done in lite mode
ChStart(u) ==
  /\ ch.upc[u] = "start"
  /\ ch' = [ch EXCEPT !.upc[u] = IF ch.lite THEN "idle" ELSE "lock"]
  /\ ChFrame

\* line 420: exp.ChartUpdate.Lock()
ChLock(u) ==
  /\ ch.upc[u] = "lock"
  /\ ch.mu = 0
  /\ ch' = [ch EXCEPT !.mu = u, !.upc[u] = "height"]
  /\ ChFrame

\* line 424: expHeight := exp.Height()
ChHeight(u) ==
  /\ ch.upc[u] = "height"
  /\ ch' = [ch EXCEPT !.uexp[u] = ch.tip, !.ubranch[u] = ch.branch,
                      !.upc[u] = "check"]
  /\ ChFrame

\* lines 425-428: no update if expHeight == cacheChartsData.Height()
ChCheck(u) ==
  /\ ch.upc[u] = "check"
  /\ ch.writer = 0
  /\ ch' = [ch EXCEPT !.ucache[u] = CacheHeight,
                      !.upc[u] = IF ch.uexp[u] = CacheHeight
                                   THEN "skip" ELSE "fetchPg"]
  /\ ChFrame

\* lines 433-441: GetPgChartsData; a timeout or an error ends the update
ChFetchPg(u, ok) ==
  /\ ch.upc[u] = "fetchPg"
  /\ IF ok
       THEN ch' = [ch EXCEPT !.upc[u] = "fetchSqlite",
                             !.udata[u] = [forHeight |-> ch.uexp[u],
                                           dbHeight |-> ch.tip,
                                           branch |-> ch.branch]]
       ELSE ch' = [ch EXCEPT !.upc[u] = "unlock"]
  /\ ChFrame

\* lines 444-452: GetSqliteChartsData, merged into the data
ChFetchSqlite(u, ok) ==
  /\ ch.upc[u] = "fetchSqlite"
  /\ ch' = [ch EXCEPT !.upc[u] = IF ok THEN "update" ELSE "unlock"]
  /\ ChFrame

\* line 454 and 114: cacheChartsData.Update takes the write lock
ChUpdateLock(u) ==
  /\ ch.upc[u] = "update"
  /\ IF UpdateTakesLock
       THEN /\ ch.writer = 0 /\ ch.readers = 0
            /\ ch' = [ch EXCEPT !.writer = u, !.upc[u] = "setHeight"]
       ELSE ch' = [ch EXCEPT !.upc[u] = "setHeight"]
  /\ ChFrame

\* line 130: c.updateHeight = height
ChSetHeight(u) ==
  /\ ch.upc[u] = "setHeight"
  /\ ch' = [ch EXCEPT !.updateHeight = ch.uexp[u], !.upc[u] = "setData"]
  /\ ChFrame

\* line 131: c.Data = newData
ChSetData(u) ==
  /\ ch.upc[u] = "setData"
  /\ ch' = [ch EXCEPT !.data = ch.udata[u], !.upc[u] = "updateUnlock"]
  /\ ChFrame

\* line 115: defer c.Unlock()
ChUpdateUnlock(u) ==
  /\ ch.upc[u] = "updateUnlock"
  /\ ch' = [ch EXCEPT !.writer = IF @ = u THEN 0 ELSE @, !.upc[u] = "unlock"]
  /\ ChFrame

\* line 421: defer exp.ChartUpdate.Unlock(), after the update or the skip
ChUnlock(u) ==
  /\ ch.upc[u] \in {"unlock", "skip"}
  /\ ch' = [ch EXCEPT !.mu = 0, !.upc[u] = "idle", !.uexp[u] = 0,
                      !.ucache[u] = 0, !.ubranch[u] = 0, !.udata[u] = NoData]
  /\ ChFrame

\* lines 137 and 107: a reader takes the read lock
ChRLock ==
  /\ ch.rpc = "idle"
  /\ ch.writer = 0
  /\ ch' = [ch EXCEPT !.readers = @ + 1, !.rpc = "locked"]
  /\ ChFrame

\* lines 142 and 109: ChartTypeData reads Data, Height reads the height
ChRead ==
  /\ ch.rpc = "locked"
  /\ ch' = [ch EXCEPT !.rpc = "read",
                      !.served = [h |-> CacheHeight, data |-> ch.data,
                                  tip |-> ch.tip, branch |-> ch.branch]]
  /\ ChFrame

\* lines 138 and 108: defer RUnlock()
ChRUnlock ==
  /\ ch.rpc = "read"
  /\ ch' = [ch EXCEPT !.readers = @ - 1, !.rpc = "idle",
                      !.served = NoCharts.served]
  /\ ChFrame

\* line 369 PrepareCharts: the first update is started with the explorer, here
\* at the height before the first multiple of the update interval
ChInit ==
  /\ CAIdle /\ SyIdle /\ DBIdle
  /\ iv = NoVotes /\ ad = NoAddr /\ bt = NoBatch /\ rg = NoReorg /\ ut = NoUpdate
  /\ qy = NoQuery /\ sc = NoSide
  /\ \E lite \in BOOLEAN :
       ch = [NoCharts EXCEPT !.lite = lite, !.upc[1] = "start",
                             !.tip = chartsUpdateInterval - 1]

ChNext ==
  \/ \E sync \in BOOLEAN : ChStore(sync)
  \/ \E sync \in BOOLEAN, up \in {0, 1} : ChStoreReorg(sync, up)
  \/ \E u \in Updaters : ChStart(u)
  \/ \E u \in Updaters : ChLock(u)
  \/ \E u \in Updaters : ChHeight(u)
  \/ \E u \in Updaters : ChCheck(u)
  \/ \E u \in Updaters, ok \in BOOLEAN : ChFetchPg(u, ok)
  \/ \E u \in Updaters, ok \in BOOLEAN : ChFetchSqlite(u, ok)
  \/ \E u \in Updaters : ChUpdateLock(u)
  \/ \E u \in Updaters : ChSetHeight(u)
  \/ \E u \in Updaters : ChSetData(u)
  \/ \E u \in Updaters : ChUpdateUnlock(u)
  \/ \E u \in Updaters : ChUnlock(u)
  \/ ChRLock
  \/ ChRead
  \/ ChRUnlock

SpecCharts == ChInit /\ [][ChNext]_vars

\* the reader has been given chart data from the cache
ChartServed == ch.rpc = "read" /\ ch.served.data # NoData

\* the body of prePopulateChartsData after ChartUpdate.Lock()
BodyPcs == {"height", "check", "skip", "fetchPg", "fetchSqlite", "update",
            "setHeight", "setData", "updateUnlock", "unlock"}

FetchPcs == {"fetchPg", "fetchSqlite"}

\* an updater goes on to fetch exactly if the heights it compared differ
SkipExactlyWhenEqual ==
  \A u \in Updaters :
    /\ ch.upc[u] = "skip" => ch.uexp[u] = ch.ucache[u]
    /\ ch.upc[u] \in FetchPcs => ch.uexp[u] # ch.ucache[u]

\* C29: chart data is served from the cache only when the cache height equals
\* the explorer's tip height, and a recompute is skipped exactly when the two
\* heights are equal
C29_ServedOnlyAtTipHeight ==
  /\ ChartServed => ch.served.h = ch.served.tip
  /\ SkipExactlyWhenEqual

\* the second half of C29 alone holds
C29_SkipExactlyWhenEqual == SkipExactlyWhenEqual

\* C30: at most one updater is in the body of prePopulateChartsData; while data
\* is fetched the cache's lock is free for readers; the write lock is held only
\* for the swap of height and data; what a reader sees under the read lock is a
\* height and a data map that were installed together
C30_OneUpdaterReadersNotBlocked ==
  /\ Cardinality({u \in Updaters : ch.upc[u] \in BodyPcs}) <= 1
  /\ (\E u \in Updaters : ch.upc[u] \in FetchPcs) => ch.writer = 0
  /\ \A u \in Updaters :
       ch.writer = u => ch.upc[u] \in {"setHeight", "setData", "updateUnlock"}
  /\ ch.rpc = "read" =>
       (ch.served.data = NoData \/ ch.served.h = ch.served.data.forHeight)
  /\ ch.readers > 0 => ch.writer = 0

\* a reader holds the read lock while an updater fetches and another waits for
\* ChartUpdate
C30_Witness ==
  /\ ch.rpc = "read" /\ ch.served.data # NoData
  /\ \E u, w \in Updaters : ch.upc[u] \in FetchPcs /\ ch.upc[w] = "lock"

\* an updater waits for the write lock that a reader holds for reading
C30_WitnessSwapWaits ==
  \E u \in Updaters : ch.upc[u] = "update" /\ ch.readers > 0


\* C31: a recompute attempt that reaches the guard never waits for it: its
\* step at the guard can always be taken at once, also while another
\* recompute holds the guard (try-lock), so recomputes never queue up
C31_RecomputeNeverWaits ==
  \A u \in Updaters : ch.upc[u] = "lock" => ENABLED ChLock(u)


\* C32: after a reorg has replaced the tip by a block of another branch, data
\* computed from the old branch is not served as the data of the current tip
\* height, and an update that runs for the new tip does not skip the
\* recomputation
C32_ReorgInvalidatesCache ==
  /\ (ChartServed /\ ch.served.h = ch.served.tip)
       => ch.served.data.branch = ch.served.branch
  /\ \A u \in Updaters :
       ch.upc[u] = "skip" => ch.data.branch = ch.ubranch[u]

\* the second half of C32 alone: no update skips over data of another branch
C32_UpdateAfterReorgRecomputes ==
  \A u \in Updaters : ch.upc[u] = "skip" => ch.data.branch = ch.ubranch[u]


(* ============ dcrpg: RetrieveAddressSpentUnspent, RetrieveAddressUTXOs ============ *)

\* the outputs paid to the addresses: o1, o2, o3 pay address "a" alone, o4 is
\* a bare multisig output paying "a" and "b"
BalOutputs == 1..4

BalAddresses(o) == IF o = 4 THEN <<"a", "b">> ELSE <<"a">>

\* the value of the output: 100, 200, 300, 400
BalValue(o) == o * 100

BalAddrs == {"a", "b"}

\* the transaction that spends the output
BalSpender(o) == <<"T", o>>

\* lines 1604-1615 and 1029-1066: one funding row for each address of the
\* output, with the value of the output and no matching_tx_hash
BalFundingRows(o) ==
  {[address |-> BalAddresses(o)[i], out |-> o, funding |-> TRUE,
    matching |-> <<>>, value |-> BalValue(o)] : i \in 1..Len(BalAddresses(o))}

\* lines 2064-2104: the spending row has the first address of the vouts row
\* and the value of the output; matching_tx_hash is the funding transaction
BalSpendingRow(o) ==
  [address |-> BalAddresses(o)[1], out |-> o, funding |-> FALSE,
   matching |-> <<"F", o>>, value |-> BalValue(o)]

\* lines 2019-2029 setSpendingForFundingOP on the funding rows of the output
BalSetSpending(rows, o) ==
  {IF r.funding /\ r.out = o THEN [r EXCEPT !.matching = BalSpender(o)] ELSE r
     : r \in rows}

RECURSIVE SumValue(_)
SumValue(S) ==
  IF S = {} THEN 0
  ELSE LET r == CHOOSE x \in S : TRUE IN r.value + SumValue(S \ {r})

\* internal.SelectAddressSpentUnspentCountAndValue as scanned in line 1125:
\* the rows of the address grouped by is_funding and by matching_tx_hash
\* being empty
BalGroup(rows, address, isFunding, noMatchingTx) ==
  {r \in rows : /\ r.address = address
                /\ r.funding = isFunding
                /\ (r.matching = <<>>) = noMatchingTx}

\* lines 1092-1149: unspent is the funding group without matching
\* transaction, spent the spending group with one; the funding rows that have
\* a matching transaction are not counted
RetrieveAddressSpentUnspent(rows, address) ==
  LET unspent == BalGroup(rows, address, TRUE, TRUE)
      spent == BalGroup(rows, address, FALSE, FALSE)
  IN  [numSpent |-> Cardinality(spent), numUnspent |-> Cardinality(unspent),
       amtSpent |-> SumValue(spent), amtUnspent |-> SumValue(unspent)]

\* lines 1171-1204: one output for each row of SelectAddressUnspentWithTxn,
\* the funding rows of the address without matching transaction
RetrieveAddressUTXOs(rows, address) ==
  {r.out : r \in BalGroup(rows, address, TRUE, TRUE)}

QyFrame == UNCHANGED <<caVars, syncVars, dbVars, iv, ad, bt, rg, ut, ch, sc>>

NoBalance == [fn |-> "none", address |-> "",
              res |-> [numSpent |-> 0, numUnspent |-> 0, amtSpent |-> 0,
                       amtUnspent |-> 0],
              utxos |-> {}]

\* InsertVouts and InsertAddressRows store the funding rows of an output
BalFund(o) ==
  /\ o \notin qy.funded
  /\ qy' = [qy EXCEPT !.rows = @ \cup BalFundingRows(o),
                      !.funded = @ \cup {o}, !.q = NoBalance]
  /\ QyFrame

\* lines 2033-2051 InsertSpendingAddressRow with updateFundingRow = true for
\* the input that spends the output
BalSpend(o) ==
  /\ o \in qy.funded
  /\ o \notin qy.spent
  /\ qy' = [qy EXCEPT !.rows = BalSetSpending(@, o) \cup {BalSpendingRow(o)},
                      !.spent = @ \cup {o}, !.q = NoBalance]
  /\ QyFrame

\* the two queries are made for an address
BalQuery(address) ==
  /\ qy' = [qy EXCEPT !.q = [fn |-> "RetrieveAddressSpentUnspent",
                              address |-> address,
                              res |-> RetrieveAddressSpentUnspent(qy.rows, address),
                              utxos |-> RetrieveAddressUTXOs(qy.rows, address)]]
  /\ QyFrame

BalInit ==
  /\ CAIdle /\ SyIdle /\ DBIdle
  /\ iv = NoVotes /\ ad = NoAddr /\ bt = NoBatch /\ rg = NoReorg /\ ut = NoUpdate
  /\ ch = NoCharts /\ sc = NoSide
  /\ qy = [fn |-> "balance", rows |-> {}, funded |-> {}, spent |-> {},
           q |-> NoBalance]

BalNext ==
  \/ \E o \in BalOutputs : BalFund(o)
  \/ \E o \in BalOutputs : BalSpend(o)
  \/ \E address \in BalAddrs : BalQuery(address)

SpecBalance == BalInit /\ [][BalNext]_vars

\* the outputs paid to the address, and those of them that are spent
OutputsOf(address) ==
  {o \in qy.funded : \E i \in 1..Len(BalAddresses(o)) : BalAddresses(o)[i] = address}

SpentOutputsOf(address) == OutputsOf(address) \cap qy.spent

RECURSIVE SumOutputs(_)
SumOutputs(S) ==
  IF S = {} THEN 0
  ELSE LET o == CHOOSE x \in S : TRUE IN BalValue(o) + SumOutputs(S \ {o})

Queried == qy.q.fn = "RetrieveAddressSpentUnspent"

\* the unspent half of the answer and the UTXO list
UnspentIsUnmatchedFunding ==
  LET A == qy.q.address
      open == {r \in qy.rows : r.address = A /\ r.funding /\ r.matching = <<>>}
  IN  /\ qy.q.res.numUnspent = Cardinality(open)
      /\ qy.q.res.amtUnspent = SumValue(open)
      /\ qy.q.utxos = OutputsOf(A) \ qy.spent

\* the example: 100, 200, 300 paid to "a", the 200 output spent
BalExample ==
  (qy.funded = {1, 2, 3} /\ qy.spent = {2} /\ qy.q.address = "a") =>
     /\ qy.q.res = [numSpent |-> 1, numUnspent |-> 2, amtSpent |-> 200,
                    amtUnspent |-> 400]
     /\ qy.q.utxos = {1, 3}

\* C33: RetrieveAddressSpentUnspent returns for address A the count and total
\* value of A's funding rows without matching_tx_hash as numUnspent and
\* amtUnspent and the count and total value of A's spent outputs as numSpent
\* and amtSpent; for outputs of 100, 200, 300 with the 200 output spent it
\* returns (1, 2, 200, 400), and the UTXO list holds exactly the unspent outputs
C33_BalanceOfAddress ==
  Queried =>
    /\ UnspentIsUnmatchedFunding
    /\ qy.q.res.numSpent = Cardinality(SpentOutputsOf(qy.q.address))
    /\ qy.q.res.amtSpent = SumOutputs(SpentOutputsOf(qy.q.address))
    /\ BalExample

\* what the code gives: the unspent half, the UTXO list and the example hold
\* for every address; the spent half holds for an address that is the first
\* address of each of its spent outputs
C33_BalanceOfFirstAddress ==
  Queried =>
    /\ UnspentIsUnmatchedFunding
    /\ BalExample
    /\ (\A o \in SpentOutputsOf(qy.q.address) :
          BalAddresses(o)[1] = qy.q.address)
         => /\ qy.q.res.numSpent = Cardinality(SpentOutputsOf(qy.q.address))
            /\ qy.q.res.amtSpent = SumOutputs(SpentOutputsOf(qy.q.address))

\* the example of the claim has been queried
C33_WitnessExample ==
  Queried /\ qy.funded = {1, 2, 3} /\ qy.spent = {2} /\ qy.q.address = "a"


(* ========= insight API: the from/to range of getAddressesTxn, getAddressInfo ========= *)

\* bits of the int64 (and, in a 64 bit build, int) values of the model
IntBits == 12

MaxInt == 2 ^ (IntBits - 1) - 1
MinInt == -(2 ^ (IntBits - 1))

\* two's complement wrap-around of the result of an addition
Wrap(x) == ((x + 2 ^ (IntBits - 1)) % (2 ^ IntBits)) - 2 ^ (IntBits - 1)

\* part_002 line 646: the widest range getAddressesTxn serves
addressesTxnMaxRange == 50
\* part_002 line 1056: the widest range getAddressInfo serves
addressInfoMaxRange == 1000

\* values of the from and to request parameters
RangeValues == {MinInt, -1, 0, 1, 49, 50, 51, 52, 999, 1000, 1001, 1002,
                MaxInt - 5, MaxInt}

\* len(rawTxs) after the merge with the unconfirmed transactions
TxCounts == {1, 50, 51, 52, 1000, 1001, 1002}

ClampOff(x, txcount) == x
\* lines 632-643 and 1042-1053: a bound above txcount becomes txcount, then a
\* negative bound becomes 0
Clamp(x, txcount) ==
  LET c == IF x > txcount THEN txcount ELSE x
  IN  IF c < 0 THEN 0 ELSE c

\* lines 631-653 and 1041-1060 for txcount > 0: both bounds are clamped, to
\* becomes from if from > to, a range wider than the limit is answered with an
\* error, else rawTxs[from:to] is taken, which panics if out of range
SliceRange(from, to, txcount, limit) ==
  LET f == Clamp(from, txcount)
      t0 == Clamp(to, txcount)
      t == IF f > t0 THEN f ELSE t0
      tooWide == Wrap(t - f) > limit
      inRange == 0 <= f /\ f <= t /\ t <= txcount
  IN  [from |-> f, to |-> t,
       out |-> IF tooWide THEN "error" ELSE IF inRange THEN "served" ELSE "panic"]

NoRange == [from |-> 0, to |-> 0, out |-> "none"]

\* lines 562-566: to = from + 10 if the request has no "to"; lines 628-655
getAddressesTxn ==
  /\ qy.fn = "getAddressesTxn" /\ qy.res = NoRange
  /\ LET to == IF qy.ok THEN qy.to ELSE Wrap(qy.from + 10)
     IN  qy' = [qy EXCEPT !.res = SliceRange(qy.from, to, qy.txcount,
                                             addressesTxnMaxRange)]
  /\ QyFrame

\* lines 919-923: to = from + 1000 if the request has no "to" or to <= from;
\* lines 1039-1063
getAddressInfo ==
  /\ qy.fn = "getAddressInfo" /\ qy.res = NoRange
  /\ LET to == IF ~qy.ok \/ qy.to <= qy.from
                 THEN Wrap(qy.from + 1000) ELSE qy.to
     IN  qy' = [qy EXCEPT !.res = SliceRange(qy.from, to, qy.txcount,
                                             addressInfoMaxRange)]
  /\ QyFrame

\* a request with its from and to parameters (ok: "to" is present) and the
\* number of transactions found for the address
RangeInit ==
  /\ CAIdle /\ SyIdle /\ DBIdle
  /\ iv = NoVotes /\ ad = NoAddr /\ bt = NoBatch /\ rg = NoReorg /\ ut = NoUpdate
  /\ ch = NoCharts /\ sc = NoSide
  /\ \E fn \in {"getAddressesTxn", "getAddressInfo"}, from \in RangeValues,
        to \in RangeValues, ok \in BOOLEAN, txcount \in TxCounts :
       qy = [fn |-> fn, from |-> from, to |-> to, ok |-> ok,
             txcount |-> txcount, res |-> NoRange]

RangeNext ==
  \/ getAddressesTxn
  \/ getAddressInfo

SpecRange == RangeInit /\ [][RangeNext]_vars

RangeLimit ==
  IF qy.fn = "getAddressesTxn" THEN addressesTxnMaxRange ELSE addressInfoMaxRange

\* C34: in getAddressesTxn and getAddressInfo, for any from and to and any
\* transaction count n > 0, the bounds computed before slicing satisfy
\* 0 <= from <= to <= n, so rawTxs[from:to] is never out of range, and a
\* request whose clamped range is wider than the limit (50, 1000) is answered
\* with an error and not served
C34_RangeWithinBoundsAndLimit ==
  qy.res # NoRange =>
    /\ 0 <= qy.res.from /\ qy.res.from <= qy.res.to /\ qy.res.to <= qy.txcount
    /\ qy.res.out # "panic"
    /\ (qy.res.to - qy.res.from > RangeLimit) <=> (qy.res.out = "error")

\* a request with from below 0 and to above the transaction count was rejected
\* for its width
C34_Witness ==
  /\ qy.res.out = "error"
  /\ qy.from < 0 /\ qy.to > qy.txcount
  /\ qy.res.from = 0 /\ qy.res.to = qy.txcount

\* a request with from above the transaction count and to below it was served
\* with the empty range at the end
C34_WitnessServed ==
  /\ qy.res.out = "served" /\ qy.ok
  /\ qy.from > qy.txcount /\ qy.to < qy.from
  /\ qy.res.from = qy.txcount /\ qy.res.to = qy.txcount


(* ================= dcrsqlite.RewindStakeDB called on its own ================= *)

ErrDisconnect == "DisconnectBlock failed"

\* the toHeight arguments: below 0, every height, and above the stake DB
RewindTargets == (-1)..(MaxHeight + 1)

RewindMoreOrEqual(stakeDBHeight, toHeight) == stakeDBHeight >= toHeight
\* line 75: for stakeDBHeight > toHeight
RewindMore(stakeDBHeight, toHeight) == stakeDBHeight > toHeight

RwFrame ==
  /\ UNCHANGED <<nodeHeight, summaryHeight, stakeInfoHeight, waitChan, rs, run>>
  /\ UNCHANGED <<caVars, dbVars, moreVars>>

\* lines 69-74: the stake DB height is read, a negative toHeight becomes 0
RewindStakeDB(toHeight) ==
  /\ syPc = "idle"
  /\ rw' = [toHeight |-> IF toHeight < 0 THEN 0 ELSE toHeight,
            stakeDBHeight |-> sdbHeight, arg |-> toHeight,
            fromHeight |-> sdbHeight, disconnects |-> 0, cancelled |-> FALSE]
  /\ syPc' = "rewinding"
  /\ UNCHANGED <<sdbHeight, ctxDone, retHeight, retErr>>
  /\ RwFrame

\* lines 80-85: the quit signal is seen before the next DisconnectBlock; the
\* named results are returned, err being nil
RewindQuitSeen ==
  /\ syPc = "rewinding"
  /\ RewindMore(rw.stakeDBHeight, rw.toHeight)
  /\ ctxDone
  /\ rw' = [rw EXCEPT !.cancelled = TRUE]
  /\ syPc' = "returned" /\ retHeight' = rw.stakeDBHeight /\ retErr' = ErrNil
  /\ UNCHANGED <<sdbHeight, ctxDone>>
  /\ RwFrame

\* lines 86-90: DisconnectBlock; on an error the function returns it, else the
\* height is read from the stake DB again
RewindDisconnect(ok) ==
  /\ syPc = "rewinding"
  /\ RewindMore(rw.stakeDBHeight, rw.toHeight)
  /\ ~ctxDone
  /\ IF ok
       THEN /\ sdbHeight' = sdbHeight - 1
            /\ rw' = [rw EXCEPT !.stakeDBHeight = sdbHeight - 1,
                                !.disconnects = @ + 1]
            /\ UNCHANGED <<syPc, retHeight, retErr>>
       ELSE /\ syPc' = "returned" /\ retHeight' = rw.stakeDBHeight
            /\ retErr' = ErrDisconnect
            /\ UNCHANGED <<sdbHeight, rw>>
  /\ UNCHANGED ctxDone
  /\ RwFrame

\* lines 75 and 92: the loop ends and the height is returned with a nil error
RewindReturn ==
  /\ syPc = "rewinding"
  /\ ~RewindMore(rw.stakeDBHeight, rw.toHeight)
  /\ syPc' = "returned" /\ retHeight' = rw.stakeDBHeight /\ retErr' = ErrNil
  /\ UNCHANGED <<sdbHeight, ctxDone, rw>>
  /\ RwFrame

\* the context is cancelled while RewindStakeDB runs
RewindQuit ==
  /\ syPc = "rewinding"
  /\ ~ctxDone
  /\ ctxDone' = TRUE
  /\ UNCHANGED <<sdbHeight, syPc, rw, retHeight, retErr>>
  /\ RwFrame

\* a stake DB at some height, the context cancelled or not
RwInit ==
  /\ CAIdle /\ DBIdle /\ MoreIdle
  /\ nodeHeight = 0 /\ summaryHeight = -1 /\ stakeInfoHeight = -1
  /\ waitChan = -1 /\ rs = NoFrame /\ run = NoRun
  /\ sdbHeight \in 0..MaxHeight
  /\ ctxDone \in BOOLEAN
  /\ syPc = "idle"
  /\ rw = NoRewind
  /\ retHeight = 0 /\ retErr = ErrNil

RwNext ==
  \/ \E toHeight \in RewindTargets : RewindStakeDB(toHeight)
  \/ RewindQuitSeen
  \/ \E ok \in BOOLEAN : RewindDisconnect(ok)
  \/ RewindReturn
  \/ RewindQuit

SpecRewind == RwInit /\ [][RwNext]_vars

RewindFloor == IF rw.arg < 0 THEN 0 ELSE rw.arg

\* C35: RewindStakeDB(toHeight) makes no DisconnectBlock and returns the
\* current height with a nil error if toHeight is at or above the stake DB
\* height; otherwise, without cancellation and disconnect error, it
\* disconnects one block at a time and returns exactly max(toHeight, 0), never
\* taking the stake DB below that height; on cancellation it stops before the
\* next disconnect and returns the height reached with a nil error
C35_RewindStakeDBResult ==
  /\ syPc \in {"rewinding", "returned"} =>
       /\ rw.disconnects = rw.fromHeight - sdbHeight
       /\ rw.arg >= rw.fromHeight => rw.disconnects = 0
       /\ rw.arg < rw.fromHeight => sdbHeight >= RewindFloor
  /\ syPc = "returned" =>
       /\ retHeight = sdbHeight
       /\ rw.arg >= rw.fromHeight =>
            (retHeight = rw.fromHeight /\ retErr = ErrNil)
       /\ (rw.arg < rw.fromHeight /\ ~rw.cancelled /\ retErr = ErrNil) =>
            retHeight = RewindFloor
       /\ rw.cancelled => retErr = ErrNil

\* a rewind over more than one block to a negative toHeight has returned
C35_Witness ==
  /\ syPc = "returned" /\ retErr = ErrNil /\ ~rw.cancelled
  /\ rw.arg < 0 /\ rw.disconnects > 1

\* a rewind was cancelled after it had disconnected a block and before it
\* reached its target
C35_WitnessCancelled ==
  /\ syPc = "returned" /\ rw.cancelled
  /\ rw.disconnects > 0 /\ sdbHeight > rw.toHeight

\* a call with toHeight above the stake DB height has returned
C35_WitnessNothingToDo ==
  syPc = "returned" /\ rw.arg > rw.fromHeight


(* ======================== rpcutils.SideChainFull ======================== *)

ErrHeader == "GetBlockHeaderVerboseByString failed"
ErrNotSideChain == "tip block is not on a side chain"

ScFrame == UNCHANGED <<caVars, syncVars, dbVars, iv, ad, bt, rg, ut, ch, qy>>

\* the blocks of the node's best chain: the best block and its ancestors
RECURSIVE ChainTo(_, _)
ChainTo(prev, h) == IF h = zeroHash THEN {} ELSE {h} \cup ChainTo(prev, prev[h])

\* header.Confirmations of a block the node knows: -1 for a block that is not
\* on the best chain, else the number of best chain blocks from it to the tip
Confirmations(prev, best, h) ==
  IF h \in ChainTo(prev, best)
    THEN Cardinality(ChainTo(prev, best)) - Cardinality(ChainTo(prev, h)) + 1
    ELSE -1

\* lines 328-334 reverseStringSlice: s[i] and s[N-1-i] are swapped for
\* i = 0 .. N/2 - 1 (the indices of the model start at 1)
RECURSIVE ReverseFrom(_, _)
ReverseFrom(s, i) ==
  LET N == Len(s)
      j == N - 1 - i
  IN  IF i <= (N \div 2) - 1
        THEN ReverseFrom([s EXCEPT ![i + 1] = s[j + 1], ![j + 1] = s[i + 1]],
                         i + 1)
        ELSE s

NotReversed(s) == s
reverseStringSlice(s) == ReverseFrom(s, 0)

\* lines 295-299: SideChainFull(client, tipHash) is called
SideChainFull(tipHash) ==
  /\ sc.pc = "idle"
  /\ sc' = [sc EXCEPT !.pc = "loop", !.tipHash = tipHash, !.hash = tipHash]
  /\ ScFrame

\* lines 300-320, one round of the loop: the header of hash is fetched; with no
\* header the call fails; a block with Confirmations != -1 ends the walk, with
\* an error if it is the tip itself; else the hash is appended and the walk
\* goes on with header.PreviousHash
ScHeader(ok) ==
  /\ sc.pc = "loop"
  /\ IF ~ok \/ sc.hash \notin Hashes
       THEN sc' = [sc EXCEPT !.pc = "returned", !.err = ErrHeader, !.ret = <<>>]
       ELSE IF Confirmations(sc.prev, sc.best, sc.hash) # -1
         THEN IF sc.hash = sc.tipHash
                THEN sc' = [sc EXCEPT !.pc = "returned", !.err = ErrNotSideChain,
                                      !.ret = <<>>]
                ELSE sc' = [sc EXCEPT !.pc = "reverse"]
         ELSE sc' = [sc EXCEPT !.sideChain = Append(@, sc.hash),
                               !.hash = sc.prev[sc.hash]]
  /\ ScFrame

\* lines 322-325: the list is reversed and returned
ScReturn ==
  /\ sc.pc = "reverse"
  /\ sc' = [sc EXCEPT !.pc = "returned", !.ret = reverseStringSlice(sc.sideChain)]
  /\ ScFrame

\* a node with a block tree and a best block
ScInit ==
  /\ CAIdle /\ SyIdle /\ DBIdle
  /\ iv = NoVotes /\ ad = NoAddr /\ bt = NoBatch /\ rg = NoReorg /\ ut = NoUpdate
  /\ ch = NoCharts /\ qy = NoQuery
  /\ \E prev \in BlockTrees, best \in Hashes :
       sc = [fn |-> "SideChainFull", prev |-> prev, best |-> best,
             pc |-> "idle", tipHash |-> zeroHash, hash |-> zeroHash,
             sideChain |-> <<>>, ret |-> <<>>, err |-> ErrNil]

ScNext ==
  \/ \E tipHash \in Hashes \cup {UnknownHash} : SideChainFull(tipHash)
  \/ \E ok \in BOOLEAN : ScHeader(ok)
  \/ ScReturn

SpecSideChain == ScInit /\ [][ScNext]_vars

ScMainChain == ChainTo(sc.prev, sc.best)

\* C36: for a side chain tip SideChainFull returns the blocks of the side
\* chain, lowest first and the tip last, each the parent of the next; the
\* parent of the first is a main chain block and is not in the list; for a tip
\* on the main chain it returns the error 'tip block is not on a side chain'
\* and no list
C36_SideChainOrdered ==
  sc.pc = "returned" =>
    /\ sc.err = ErrNil =>
         /\ sc.tipHash \notin ScMainChain
         /\ sc.ret # <<>>
         /\ sc.ret[Len(sc.ret)] = sc.tipHash
         /\ \A i \in 1..(Len(sc.ret) - 1) : sc.prev[sc.ret[i + 1]] = sc.ret[i]
         /\ sc.prev[sc.ret[1]] \in ScMainChain
         /\ \A i \in 1..Len(sc.ret) : sc.ret[i] \notin ScMainChain
    /\ sc.tipHash \in ScMainChain =>
         (sc.ret = <<>> /\ sc.err \in {ErrNotSideChain, ErrHeader})
    /\ sc.err = ErrNotSideChain => sc.tipHash \in ScMainChain

\* a side chain of three blocks has been returned
C36_Witness ==
  sc.pc = "returned" /\ sc.err = ErrNil /\ Len(sc.ret) = 3

\* the call was made for a main chain block and answered with the error
C36_WitnessMainChainTip ==
  sc.pc = "returned" /\ sc.err = ErrNotSideChain /\ sc.tipHash # sc.best


(* ====================== dcrsqlite.ImportSideChains ====================== *)

ErrChainTips == "GetChainTips failed"

\* the side chains of the node, as SideChainFull returns them for the two
\* side chain tips a2 and b2
ImSideChains == << <<"a1", "a2">>, <<"b1", "b2">> >>

RECURSIVE SeqToSet(_)
SeqToSet(q) == IF q = <<>> THEN {} ELSE {Head(q)} \cup SeqToSet(Tail(q))

RECURSIVE Keep(_, _)
Keep(q, S) ==
  IF q = <<>> THEN <<>>
  ELSE IF Head(q) \in S THEN <<Head(q)>> \o Keep(Tail(q), S) ELSE Keep(Tail(q), S)

NoImport == [fn |-> "ImportSideChains", pc |-> "idle", it |-> 1,
             hashlist |-> <<>>, i |-> 1, stored |-> {}, failed |-> {},
             err |-> ErrNil]

\* lines 423-426: rpcutils.SideChains; its error is returned
ImportSideChains(ok) ==
  /\ sc.pc = "idle"
  /\ sc' = IF ok THEN [sc EXCEPT !.pc = "tips"]
                 ELSE [sc EXCEPT !.pc = "returned", !.err = ErrChainTips]
  /\ ScFrame

\* lines 428-447, one tip: SideChainFull, whose error is returned; the blocks
\* that getMainchainStatus reports as main chain or as not in the DB (new) are
\* appended to hashlist
ImSideChain(ok, new) ==
  /\ sc.pc = "tips"
  /\ new \subseteq SeqToSet(ImSideChains[sc.it])
  /\ IF ok
       THEN sc' = [sc EXCEPT
              !.hashlist = @ \o Keep(ImSideChains[sc.it], new),
              !.it = @ + 1,
              !.pc = IF sc.it = Len(ImSideChains) THEN "import" ELSE "tips"]
       ELSE /\ new = {}
            /\ sc' = [sc EXCEPT !.pc = "returned", !.err = ErrHeader]
  /\ ScFrame

\* lines 450-459: CollectAPITypes; blockDataBasic.Height is read for the log
\* line 453 before the test for nil in line 455, which ends the call with a
\* nil pointer panic when no data was collected
ImCollect(data) ==
  /\ sc.pc = "import"
  /\ sc.i <= Len(sc.hashlist)
  /\ sc' = [sc EXCEPT !.pc = IF data THEN "store" ELSE "panic"]
  /\ ScFrame

\* lines 460-463: StoreSideBlockSummary; a failure is logged and the loop
\* goes on
ImStore(ok) ==
  /\ sc.pc = "store"
  /\ sc' = [sc EXCEPT !.pc = "import", !.i = @ + 1,
                      !.stored = IF ok THEN @ \cup {sc.hashlist[sc.i]} ELSE @,
                      !.failed = IF ok THEN @ ELSE @ \cup {sc.hashlist[sc.i]}]
  /\ ScFrame

\* lines 449 and 465: the loop over hashlist has ended, nil is returned
ImReturn ==
  /\ sc.pc = "import"
  /\ sc.i > Len(sc.hashlist)
  /\ sc' = [sc EXCEPT !.pc = "returned"]
  /\ ScFrame

ImInit ==
  /\ CAIdle /\ SyIdle /\ DBIdle
  /\ iv = NoVotes /\ ad = NoAddr /\ bt = NoBatch /\ rg = NoReorg /\ ut = NoUpdate
  /\ ch = NoCharts /\ qy = NoQuery
  /\ sc = NoImport

ImNext ==
  \/ \E ok \in BOOLEAN : ImportSideChains(ok)
  \/ \E ok \in BOOLEAN, new \in SUBSET {"a1", "a2", "b1", "b2"} :
       ImSideChain(ok, new)
  \/ \E data \in BOOLEAN : ImCollect(data)
  \/ \E ok \in BOOLEAN : ImStore(ok)
  \/ ImReturn

SpecImport == ImInit /\ [][ImNext]_vars

\* C37: ImportSideChains does not quit when no data can be collected for a
\* side chain block: the block is skipped, the other blocks are imported and
\* nil is returned; a failure to store a block does not stop the import of the
\* others either
C37_ImportGoesOnAfterFailure ==
  /\ sc.pc # "panic"
  /\ (sc.pc = "returned" /\ sc.it > Len(ImSideChains)) =>
       /\ sc.err = ErrNil
       /\ sc.i = Len(sc.hashlist) + 1

\* the half that holds: once the list of new blocks is made, a call that
\* returns has gone through the whole list, with the blocks that could not be
\* stored left out, and returns nil
C37_StoreFailureDoesNotStop ==
  (sc.pc = "returned" /\ sc.it > Len(ImSideChains)) =>
    /\ sc.err = ErrNil
    /\ sc.stored \cup sc.failed = SeqToSet(sc.hashlist)
    /\ sc.stored \cap sc.failed = {}

\* a block was stored after the store of an earlier block had failed
C37_WitnessStoreFailure ==
  /\ sc.pc = "returned" /\ sc.failed = {"a1"} /\ sc.stored = {"a2", "b1"}


(* ================= insight API: getTransactions by block ================= *)

\* greatest number of regular and of stake transactions in the block
MaxBlockTxns == 12

\* part_002 lines 432 and 435: the 10 of "limit result to 10 max"
blockTxnsLimit == 10

\* line 435: after the loop over RawTx, the loop over RawSTx is run if
\* count < 10
AfterRegular(count) == IF count < blockTxnsLimit THEN "stake" ELSE "done"

\* lines 428-434, one round of the loop over blkTrans.RawTx: the transaction
\* is appended, count is raised, and the loop is left if count > 10
GtRegularTx ==
  /\ qy.pc = "regular"
  /\ qy.i < qy.nTx
  /\ qy' = [qy EXCEPT !.txsOld = Append(@, <<"tx", qy.i>>),
                      !.count = @ + 1,
                      !.i = IF qy.count + 1 > blockTxnsLimit THEN 0 ELSE @ + 1,
                      !.pc = IF qy.count + 1 > blockTxnsLimit
                               THEN AfterRegular(qy.count + 1) ELSE "regular"]
  /\ QyFrame

\* lines 428 and 435: the loop over RawTx has gone through all of them
GtRegularEnd ==
  /\ qy.pc = "regular"
  /\ qy.i >= qy.nTx
  /\ qy' = [qy EXCEPT !.i = 0, !.pc = AfterRegular(qy.count)]
  /\ QyFrame

\* lines 436-442, one round of the loop over blkTrans.RawSTx
GtStakeTx ==
  /\ qy.pc = "stake"
  /\ qy.i < qy.nSTx
  /\ qy' = [qy EXCEPT !.txsOld = Append(@, <<"stx", qy.i>>),
                      !.count = @ + 1,
                      !.i = IF qy.count + 1 > blockTxnsLimit THEN 0 ELSE @ + 1,
                      !.pc = IF qy.count + 1 > blockTxnsLimit
                               THEN "done" ELSE "stake"]
  /\ QyFrame

\* line 436: the loop over RawSTx has gone through all of them
GtStakeEnd ==
  /\ qy.pc = "stake"
  /\ qy.i >= qy.nSTx
  /\ qy' = [qy EXCEPT !.i = 0, !.pc = "done"]
  /\ QyFrame

\* lines 417-427: the block has been found, with its regular and stake
\* transactions
GtInit ==
  /\ CAIdle /\ SyIdle /\ DBIdle
  /\ iv = NoVotes /\ ad = NoAddr /\ bt = NoBatch /\ rg = NoReorg /\ ut = NoUpdate
  /\ ch = NoCharts /\ sc = NoSide
  /\ \E nTx \in 0..MaxBlockTxns, nSTx \in 0..MaxBlockTxns :
       qy = [fn |-> "getTransactions", nTx |-> nTx, nSTx |-> nSTx,
             pc |-> "regular", i |-> 0, count |-> 0, txsOld |-> <<>>]

GtNext ==
  \/ GtRegularTx
  \/ GtRegularEnd
  \/ GtStakeTx
  \/ GtStakeEnd

SpecBlockTxns == GtInit /\ [][GtNext]_vars

\* C38: for a query by block the regular and the stake transactions of the
\* block are merged, and the result has at most 10 transactions whatever the
\* numbers of regular and stake transactions in the block
C38_AtMostTenTransactions ==
  qy.pc = "done" => Len(qy.txsOld) <= blockTxnsLimit

\* what the code gives: at most 11 transactions, the regular ones first
C38_AtMostElevenTransactions ==
  qy.pc = "done" =>
    /\ Len(qy.txsOld) <= blockTxnsLimit + 1
    /\ Len(qy.txsOld) <= qy.nTx + qy.nSTx
    /\ \A a, b \in 1..Len(qy.txsOld) :
         (qy.txsOld[a][1] = "stx" /\ qy.txsOld[b][1] = "tx") => b < a


(* ============ dcrsqlite.resyncDB: the heights of ConnectBlock ============ *)

\* resyncDB is about to call db.sDB.ConnectBlock for the loop height rs.i
\* (line 249: i > stakeDBHeight)
AboutToConnect == syPc = "connect" /\ rs.i > rs.stakeDBHeight

\* C39: whenever resyncDB calls ConnectBlock for loop height i, the stake DB is
\* at height i-1 immediately before the call, in master and in coordinated
\* mode, after a rewind or without one, with the stake DB behind or level with
\* SQLite: the blocks connected in a run are consecutive, without gap or repeat
C39_ConnectAtNextHeight ==
  /\ AboutToConnect => sdbHeight = rs.i - 1
  /\ syPc \in LoopPcs =>
       /\ \A c \in run.connects : c <= sdbHeight /\ c <= rs.i
       /\ \A c \in run.connects : \A h \in c..sdbHeight : h \in run.connects

\* a block is about to be connected in coordinated mode after a rewind of the
\* stake DB
C39_Witness ==
  /\ AboutToConnect /\ ~rs.master
  /\ run.disconnects > 0

\* a second block is about to be connected in a run that found the stake DB
\* behind SQLite
C39_WitnessBehind ==
  /\ AboutToConnect /\ run.connects # {}
  /\ run.entryS < run.entryH

=============================================================================
